---- MODULE Spec2Model ----
(***************************************************************************)
(* Behaviour state machine, physics integrator, animation clock and        *)
(* population manager of the desktop pet (src/pet_V3.py and src/333.py).   *)
(*                                                                         *)
(* The repository holds two variants of the program that differ in a few   *)
(* handlers; the variable `version` says which variant a behaviour runs.   *)
(*                                                                         *)
(* Coordinates and velocities are Python floats in the source.  They are   *)
(* kept here in hundredths of a pixel (Px(n) is n pixels); `vx *= 0.98`    *)
(* rounds toward zero at that resolution.  Durations are milliseconds.     *)
(* A draw of random.random() is an integer number of thousandths.          *)
(***************************************************************************)
EXTENDS Integers, Sequences, FiniteSets, TLC

VARIABLES
    version,    \* "V3" (src/pet_V3.py) or "333" (src/333.py)
    desktop,    \* the monitors' available rectangles, the primary one first
    MAX_PETS,   \* the module-level MAX_PETS
    pets,       \* manager.pets: the live characters, in spawn order
    pet,        \* every DesktopPet object ever constructed, by identity
    event,      \* the handler that ran last, its input and what it found
    cmds,       \* user commands (menu, tray, mouse) still to come
    ticks,      \* timer ticks still to come; negative for no bound
    running     \* FALSE once QApplication.quit() was called

vars == <<version, desktop, MAX_PETS, pets, pet, event, cmds, ticks, running>>

----------------------------------------------------------------------------
(* Bounds of the model *)

MaxObjects == 5      \* DesktopPet objects ever constructed
MaxCmds == 1         \* user commands in one behaviour of Spec
MaxTicks == 3        \* timer ticks in one behaviour of Spec
MaxSetting == 3      \* largest maximum entered in the dialog
MaxPopCmds == 2      \* user commands in one behaviour of SpecPop
MaxPopTicks == 1     \* timer ticks in one behaviour of SpecPop

Ids == 1..MaxObjects

----------------------------------------------------------------------------
(* Program constants *)

DEFAULT_MAX_PETS == 5
FLOOR_OFFSET == 50
RIGHT_WALL_OFFSET == 55
SPRITE == 128
HALF_SPRITE == 64
ABYSS_OFFSET == 80
GRAVITY == 2
TICK_MS == 30
HISTORY_LEN == 6

Px(n) == n * 100

\* int(v) of a coordinate: truncation toward zero, in whole pixels
ToInt(v) == IF v >= 0 THEN v \div 100 ELSE -((-v) \div 100)

\* v * 0.98
Damp(v) == IF v >= 0 THEN (v * 98) \div 100 ELSE -(((-v) * 98) \div 100)

\* d * 0.3 for an integer pixel difference d
DragVelocity(d) == d * 30

Abs(v) == IF v < 0 THEN -v ELSE v

\* random.random(): one representative per interval the code distinguishes
\* (thresholds 0.005, 0.02, 0.05, 0.1, 0.3, 0.35, 0.4, 0.5)
Draws == {0, 10, 30, 70, 200, 320, 370, 450, 700}

----------------------------------------------------------------------------
(* ACTIONS: the frame table.  Every frame of one action has the same      *)
(* duration, so an action is its frame count and its frame duration.      *)

States == {"born", "fly", "drag_throw", "drop", "idle", "walk", "run",
           "standup", "sit", "sit_idle", "sitloop", "wall_idle",
           "wall_climb", "wall_descend", "ceiling_walk", "drag_left_slow",
           "drag_left_fast", "drag_right_slow", "drag_right_fast",
           "ie_walk", "struggle"}

NumFrames(s) ==
    CASE s = "born" -> 6
      [] s \in {"walk", "ie_walk"} -> 11
      [] s = "run" -> 9
      [] s \in {"standup", "struggle"} -> 3
      [] s = "sit" -> 10
      [] s = "sitloop" -> 19
      [] s \in {"wall_climb", "wall_descend"} -> 11
      [] s = "ceiling_walk" -> 8
      [] OTHER -> 1

Dur(s) ==
    CASE s = "born" -> 300
      [] s \in {"fly", "drag_throw", "drop"} -> 100
      [] s \in {"idle", "wall_idle"} -> 3000
      [] s \in {"walk", "standup", "sit", "sitloop", "ie_walk"} -> 150
      [] s = "run" -> 100
      [] s = "sit_idle" -> 2000
      [] s \in {"wall_climb", "wall_descend"} -> 180
      [] s \in {"ceiling_walk", "struggle"} -> 120
      [] OTHER -> 100

AirStates == {"fly", "drop", "drag_throw"}
WallStates == {"wall_idle", "wall_climb", "wall_descend"}
FloorStates == {"idle", "walk", "run", "ie_walk"}
StillStates == {"born", "sit", "sitloop", "sit_idle", "standup", "struggle"}
DragStates == {"drag_left_slow", "drag_left_fast", "drag_right_slow",
               "drag_right_fast"}

----------------------------------------------------------------------------
(* Monitor geometry (QDesktopWidget) *)

\* QRect.center().x()
CenterX(r) == (r.left + r.right) \div 2

Contains(r, px, py) ==
    /\ r.left <= px /\ px <= r.right
    /\ r.top <= py /\ py <= r.bottom

\* desktop.screenNumber(point): the monitor holding the point, -1 for none
screenNumber(d, px, py) ==
    IF \E i \in 1..Len(d) : Contains(d[i], px, py)
    THEN CHOOSE i \in 1..Len(d) :
            /\ Contains(d[i], px, py)
            /\ \A j \in 1..(i - 1) : ~Contains(d[j], px, py)
    ELSE -1

\* desktop.availableGeometry(n); -1 stands for the primary monitor
availableGeometry(d, n) == IF n = -1 THEN d[1] ELSE d[n]

floor_y(r) == Px(r.bottom - SPRITE - FLOOR_OFFSET)
abyss_threshold(r) == Px(r.bottom - ABYSS_OFFSET)
left_bound(r) == Px(r.left)
right_bound(r) == Px(r.right - SPRITE - RIGHT_WALL_OFFSET)
ceiling_y(r) == Px(r.top)

----------------------------------------------------------------------------
(* A DesktopPet object.  `made` says the object was constructed, `timer`   *)
(* that its 30 ms QTimer still fires, `win` is the window's top-left       *)
(* corner as last set by self.move().                                      *)

NoRect == [left |-> 0, top |-> 0, right |-> 0, bottom |-> 0]

Unmade ==
    [made |-> FALSE, timer |-> FALSE, x |-> 0, y |-> 0, vx |-> 0, vy |-> 0,
     state |-> "drop", look_right |-> TRUE, is_fixed |-> FALSE,
     wander_mode |-> "none", frame_index |-> 0, frame_timer |-> 0,
     is_dragging |-> FALSE, mouse_history |-> <<>>, drag_offset |-> <<0, 0>>,
     last_drag_x |-> 0, ceiling_dist |-> 0, screen_rect |-> NoRect,
     win |-> <<0, 0>>]

\* update_image: only its repair of frame_index touches the model's state
update_image(q) ==
    IF q.frame_index >= NumFrames(q.state)
    THEN [q EXCEPT !.frame_index = 0]
    ELSE q

set_state_no_reset(q, new_state) ==
    IF q.state = new_state THEN q
    ELSE [q EXCEPT !.state = new_state,
                   !.ceiling_dist = IF new_state = "ceiling_walk" THEN 0 ELSE @]

set_state(q, new_state) ==
    IF q.state = new_state THEN q
    ELSE update_image(
           [q EXCEPT !.state = new_state,
                     !.frame_index = 0,
                     !.frame_timer = 0,
                     !.ceiling_dist = IF new_state = "ceiling_walk" THEN 0 ELSE @])

\* self.move(int(self.x), int(self.y))
move_window(q) == [q EXCEPT !.win = <<ToInt(q.x), ToInt(q.y)>>]

update_screen_info(q, d, force_update) ==
    IF ~force_update /\ q.state \in (WallStates \cup {"ceiling_walk"})
    THEN q
    ELSE LET n == screenNumber(d, ToInt(q.x + Px(HALF_SPRITE)),
                                  ToInt(q.y + Px(HALF_SPRITE)))
         IN  [q EXCEPT !.screen_rect = availableGeometry(d, n)]

respawn_at_top(q) ==
    set_state([q EXCEPT !.x = Px(CenterX(q.screen_rect) - HALF_SPRITE),
                        !.y = Px(q.screen_rect.top - SPRITE),
                        !.vx = 0,
                        !.vy = Px(2)],
              "drop")

snap_to_nearest_wall(q) ==
    LET left_wall_x == left_bound(q.screen_rect)
        right_wall_x == right_bound(q.screen_rect)
    IN  IF Abs(q.x - left_wall_x) < Abs(q.x - right_wall_x)
        THEN [q EXCEPT !.x = left_wall_x, !.look_right = FALSE]
        ELSE [q EXCEPT !.x = right_wall_x, !.look_right = TRUE]

----------------------------------------------------------------------------
(* Transition policy on sequence-complete.  Each operator yields the set   *)
(* of outcomes over the random draws, an outcome being the character and   *)
(* whether it asked the manager for a clone.                               *)

\* `done` says that the tick called on_action_finished
Out(q, spawn) == [q |-> q, spawn |-> spawn, done |-> FALSE]

\* src/pet_V3.py decide_ai with the draw r
ai_V3(q, r) ==
    IF q.is_fixed
    THEN (IF q.state # "idle" THEN set_state(q, "idle") ELSE q)
    ELSE IF q.state = "idle"
    THEN (CASE r < 300 -> set_state(q, "walk")
            [] r >= 300 /\ r < 350 -> set_state(q, "run")
            [] r >= 350 /\ r < 400 -> set_state(q, "sit")
            [] r >= 400 /\ r < 500 -> [q EXCEPT !.look_right = ~@]
            [] OTHER -> q)
    ELSE IF q.state \in {"walk", "run"}
    THEN (IF r < 100 THEN set_state(q, "idle") ELSE q)
    ELSE q

\* src/333.py decide_ai with the draw r
ai_333(q, r, can_spawn) ==
    IF q.is_fixed
    THEN (IF q.state # "idle" THEN set_state(q, "idle") ELSE q)
    ELSE IF q.wander_mode = "full" /\ q.state = "idle"
    THEN set_state(q, "walk")
    ELSE IF q.state = "idle"
    THEN (CASE r < 50 -> IF can_spawn THEN set_state(q, "born") ELSE q
            [] r >= 50 /\ r < 300 -> set_state(q, "walk")
            [] r >= 300 /\ r < 350 -> set_state(q, "run")
            [] r >= 350 /\ r < 400 -> set_state(q, "sit")
            [] r >= 400 /\ r < 500 -> [q EXCEPT !.look_right = ~@]
            [] OTHER -> q)
    ELSE IF q.state \in {"walk", "run", "ie_walk"}
    THEN (IF r < 100 THEN set_state(q, "idle") ELSE q)
    ELSE q

ai(v, q, r, can_spawn) ==
    IF v = "V3" THEN ai_V3(q, r) ELSE ai_333(q, r, can_spawn)

\* src/pet_V3.py
decide_ai_V3(q) == {ai_V3(q, r) : r \in Draws}

\* src/333.py
decide_ai_333(q, can_spawn) == {ai_333(q, r, can_spawn) : r \in Draws}

decide_ai_unpinned(v, q, can_spawn) ==
    {[a EXCEPT !.is_fixed = q.is_fixed] :
        a \in (IF v = "V3" THEN decide_ai_V3([q EXCEPT !.is_fixed = FALSE])
               ELSE decide_ai_333([q EXCEPT !.is_fixed = FALSE], can_spawn))}

decide_ai(v, q, can_spawn) ==
    IF v = "V3" THEN decide_ai_V3(q) ELSE decide_ai_333(q, can_spawn)

on_action_finished_loop_ends(v, q, can_spawn) ==
    CASE q.state = "born" -> {Out(set_state(q, "idle"), TRUE)}
      [] q.state = "sit" -> {Out(set_state(q, "sit_idle"), FALSE)}
      [] q.state = "sit_idle" ->
            {Out(IF r < 300 THEN set_state(q, "standup")
                 ELSE set_state(q, "sitloop"), FALSE) : r \in Draws}
      [] q.state = "sitloop" ->
            {Out(IF r < 500 THEN set_state(q, "sit_idle")
                 ELSE set_state(q, "idle"), FALSE) : r \in Draws}
      [] q.state = "standup" -> {Out(set_state(q, "idle"), FALSE)}
      [] q.state \in FloorStates ->
            {Out(a, FALSE) : a \in decide_ai(v, q, can_spawn)}
      [] OTHER -> {Out(q, FALSE)}

on_action_finished_no_standup(v, q, can_spawn) ==
    CASE q.state = "born" -> {Out(set_state(q, "idle"), TRUE)}
      [] q.state = "sit" -> {Out(set_state(q, "sit_idle"), FALSE)}
      [] q.state = "sit_idle" ->
            {Out(IF r < 300 THEN set_state(q, "idle")
                 ELSE set_state(q, "sitloop"), FALSE) : r \in Draws}
      [] q.state = "sitloop" ->
            {Out(IF r < 500 THEN set_state(q, "sit_idle")
                 ELSE set_state(q, "standup"), FALSE) : r \in Draws}
      [] q.state = "standup" -> {Out(set_state(q, "idle"), FALSE)}
      [] q.state \in FloorStates ->
            {Out(a, FALSE) : a \in decide_ai(v, q, can_spawn)}
      [] OTHER -> {Out(q, FALSE)}

\* The clone is requested before set_state("idle"); it is made from the
\* position and facing the character has at that moment, which set_state
\* leaves alone.
on_action_finished(v, q, can_spawn) ==
    CASE q.state = "born" -> {Out(set_state(q, "idle"), TRUE)}
      [] q.state = "sit" -> {Out(set_state(q, "sit_idle"), FALSE)}
      [] q.state = "sit_idle" ->
            {Out(IF r < 300 THEN set_state(q, "standup")
                 ELSE set_state(q, "sitloop"), FALSE) : r \in Draws}
      [] q.state = "sitloop" ->
            {Out(IF r < 500 THEN set_state(q, "sit_idle")
                 ELSE set_state(q, "standup"), FALSE) : r \in Draws}
      [] q.state = "standup" -> {Out(set_state(q, "idle"), FALSE)}
      [] q.state \in FloorStates ->
            {Out(a, FALSE) : a \in decide_ai(v, q, can_spawn)}
      [] OTHER -> {Out(q, FALSE)}

update_animation_frame_no_wrap(v, q, can_spawn) ==
    LET q1 == [q EXCEPT !.frame_timer = @ + TICK_MS]
    IN  IF q1.frame_timer >= Dur(q1.state)
        THEN {Out([q1 EXCEPT !.frame_timer = 0, !.frame_index = @ + 1], FALSE)}
        ELSE {Out(q1, FALSE)}

update_animation_frame_every_frame(v, q, can_spawn) ==
    LET q0 == IF v = "333" THEN update_image(q) ELSE q
        q1 == [q0 EXCEPT !.frame_timer = @ + TICK_MS]
    IN  IF q1.frame_timer >= Dur(q1.state)
        THEN LET q2 == [q1 EXCEPT !.frame_timer = 0,
                                  !.frame_index = (@ + 1) % NumFrames(q1.state)]
             IN  {[o EXCEPT !.q = update_image(o.q), !.done = TRUE] :
                     o \in on_action_finished(v, q2, can_spawn)}
        ELSE {Out(update_image(q1), FALSE)}

\* The animation clock.  src/333.py repairs an out-of-range frame_index
\* before reading the frame; src/pet_V3.py reads it as it is.
update_animation_frame(v, q, can_spawn) ==
    LET q0 == IF v = "333" THEN update_image(q) ELSE q
        q1 == [q0 EXCEPT !.frame_timer = @ + TICK_MS]
    IN  IF q1.frame_timer >= Dur(q1.state)
        THEN LET q2 == [q1 EXCEPT !.frame_timer = 0, !.frame_index = @ + 1]
             IN  IF q2.frame_index >= NumFrames(q2.state)
                 THEN {[o EXCEPT !.q = update_image(o.q), !.done = TRUE] :
                         o \in on_action_finished(
                                 v, [q2 EXCEPT !.frame_index = 0], can_spawn)}
                 ELSE {Out(update_image(q2), FALSE)}
        ELSE {Out(update_image(q1), FALSE)}

----------------------------------------------------------------------------
(* Physics integrator.  Each operator yields the set of outcomes over its  *)
(* random draws.                                                           *)

\* the position and velocity update that opens update_physics_air
integrate(q) ==
    [q EXCEPT !.x = q.x + q.vx,
              !.y = q.y + q.vy,
              !.vy = q.vy + Px(GRAVITY),
              !.vx = Damp(q.vx)]

\* the state is labelled from vx; facing is set only when the label changes
relabel(q) ==
    IF q.vx < -Px(2)
    THEN (IF q.state # "fly"
          THEN [set_state(q, "fly") EXCEPT !.look_right = FALSE] ELSE q)
    ELSE IF q.vx > Px(2)
    THEN (IF q.state # "drag_throw"
          THEN [set_state(q, "drag_throw") EXCEPT !.look_right = TRUE] ELSE q)
    ELSE (IF q.state # "drop" THEN set_state(q, "drop") ELSE q)

land_unclamped(q) ==
    IF q.y >= floor_y(q.screen_rect)
    THEN set_state([q EXCEPT !.vx = 0, !.vy = 0], "idle")
    ELSE q

\* the floor check of update_physics_air
land(q) ==
    IF q.y >= floor_y(q.screen_rect)
    THEN set_state([q EXCEPT !.y = floor_y(q.screen_rect), !.vx = 0, !.vy = 0],
                   "idle")
    ELSE q

hit_wall_inward(q) ==
    LET left == left_bound(q.screen_rect)
        right == right_bound(q.screen_rect)
    IN  IF q.x <= left
        THEN set_state([q EXCEPT !.x = left, !.vx = 0, !.vy = 0,
                                 !.look_right = TRUE], "wall_idle")
        ELSE IF q.x >= right
        THEN set_state([q EXCEPT !.x = right, !.vx = 0, !.vy = 0,
                                 !.look_right = FALSE], "wall_idle")
        ELSE q

\* the side-wall check of update_physics_air
hit_wall(q) ==
    LET left == left_bound(q.screen_rect)
        right == right_bound(q.screen_rect)
    IN  IF q.x <= left
        THEN set_state([q EXCEPT !.x = left, !.vx = 0, !.vy = 0,
                                 !.look_right = FALSE], "wall_idle")
        ELSE IF q.x >= right
        THEN set_state([q EXCEPT !.x = right, !.vx = 0, !.vy = 0,
                                 !.look_right = TRUE], "wall_idle")
        ELSE q

update_physics_air_no_abyss(q) == hit_wall(land(relabel(integrate(q))))

update_physics_air_floor_last(q) ==
    LET q1 == relabel(integrate(q))
    IN  IF q1.y > abyss_threshold(q1.screen_rect)
        THEN respawn_at_top(q1)
        ELSE land(hit_wall(q1))

update_physics_air_label_first(q) ==
    LET q1 == integrate(relabel(q))
    IN  IF q1.y > abyss_threshold(q1.screen_rect)
        THEN respawn_at_top(q1)
        ELSE hit_wall(land(q1))

update_physics_air(q) ==
    LET q1 == relabel(integrate(q))
    IN  IF q1.y > abyss_threshold(q1.screen_rect)
        THEN respawn_at_top(q1)
        ELSE hit_wall(land(q1))

\* the snap that opens update_physics_wall
wall_snap_swapped(q) ==
    IF q.x > left_bound(q.screen_rect) + Px(HALF_SPRITE)
    THEN [q EXCEPT !.x = left_bound(q.screen_rect), !.look_right = FALSE]
    ELSE [q EXCEPT !.x = right_bound(q.screen_rect), !.look_right = TRUE]

wall_snap(q) ==
    IF q.x < left_bound(q.screen_rect) + Px(HALF_SPRITE)
    THEN [q EXCEPT !.x = left_bound(q.screen_rect), !.look_right = FALSE]
    ELSE [q EXCEPT !.x = right_bound(q.screen_rect), !.look_right = TRUE]

to_ceiling(q, l, r) ==
    LET q1 == set_state(q, "ceiling_walk")
    IN  IF Abs(q1.x - l) < Px(50)
        THEN [q1 EXCEPT !.x = l + Px(5), !.look_right = TRUE]
        ELSE [q1 EXCEPT !.x = r - Px(5), !.look_right = FALSE]

jump_off_inward(q) ==
    LET q1 == [q EXCEPT !.vy = -Px(4)]
        q2 == IF ~q1.look_right
              THEN [set_state([q1 EXCEPT !.vx = -Px(8)], "fly")
                        EXCEPT !.look_right = FALSE]
              ELSE [set_state([q1 EXCEPT !.vx = Px(8)], "drag_throw")
                        EXCEPT !.look_right = TRUE]
    IN  IF q2.look_right
        THEN [q2 EXCEPT !.x = @ + Px(10)]
        ELSE [q2 EXCEPT !.x = @ - Px(10)]

jump_off_facing_kept(q) ==
    LET q1 == [q EXCEPT !.vy = -Px(4)]
        q2 == IF ~q1.look_right
              THEN set_state([q1 EXCEPT !.vx = Px(8)], "drag_throw")
              ELSE set_state([q1 EXCEPT !.vx = -Px(8)], "fly")
    IN  IF q2.look_right
        THEN [q2 EXCEPT !.x = @ + Px(10)]
        ELSE [q2 EXCEPT !.x = @ - Px(10)]

\* src/333.py, the "jump" choice at the top of a wall
jump_off(q) ==
    LET q1 == [q EXCEPT !.vy = -Px(4)]
        q2 == IF ~q1.look_right
              THEN [set_state([q1 EXCEPT !.vx = Px(8)], "drag_throw")
                        EXCEPT !.look_right = TRUE]
              ELSE [set_state([q1 EXCEPT !.vx = -Px(8)], "fly")
                        EXCEPT !.look_right = FALSE]
    IN  IF q2.look_right
        THEN [q2 EXCEPT !.x = @ + Px(10)]
        ELSE [q2 EXCEPT !.x = @ - Px(10)]

\* src/pet_V3.py
update_physics_wall_V3(q) ==
    LET left == left_bound(q.screen_rect)
        right == right_bound(q.screen_rect)
        q1 == wall_snap(q)
    IN  CASE q1.state = "wall_climb" ->
               LET q2 == IF ~q1.is_fixed THEN [q1 EXCEPT !.y = @ - Px(5)] ELSE q1
               IN  IF q2.y <= ceiling_y(q2.screen_rect)
                   THEN {to_ceiling([q2 EXCEPT !.y = ceiling_y(q2.screen_rect)],
                                    left, right)}
                   ELSE {q2}
          [] q1.state = "wall_descend" ->
               LET q2 == IF ~q1.is_fixed THEN [q1 EXCEPT !.y = @ + Px(5)] ELSE q1
               IN  IF q2.y >= floor_y(q2.screen_rect)
                   THEN {set_state([q2 EXCEPT !.y = floor_y(q2.screen_rect)],
                                   "idle")}
                   ELSE {q2}
          [] q1.state = "wall_idle" ->
               {IF r < 20 THEN set_state(q1, "wall_climb") ELSE q1 : r \in Draws}
          [] OTHER -> {q1}

\* src/333.py
update_physics_wall_333(q) ==
    LET left == left_bound(q.screen_rect)
        right == right_bound(q.screen_rect)
        q1 == wall_snap(q)
    IN  CASE q1.state = "wall_idle" ->
               IF q1.wander_mode \in {"wall", "full"}
               THEN {set_state(q1, "wall_climb")}
               ELSE { IF r < 20
                      THEN (IF q1.y <= ceiling_y(q1.screen_rect) + Px(10)
                            THEN set_state(q1, "wall_descend")
                            ELSE set_state(q1, "wall_climb"))
                      ELSE q1
                    : r \in Draws }
          [] q1.state = "wall_climb" ->
               LET q2 == IF ~q1.is_fixed THEN [q1 EXCEPT !.y = @ - Px(5)] ELSE q1
                   q3 == [q2 EXCEPT !.y = ceiling_y(q2.screen_rect)]
               IN  IF q2.y <= ceiling_y(q2.screen_rect)
                   THEN (CASE q3.wander_mode = "wall" ->
                                {set_state(q3, "wall_descend")}
                           [] q3.wander_mode \in {"ceiling", "full"} ->
                                {to_ceiling(q3, left, right)}
                           [] OTHER ->
                                {set_state(q3, "wall_idle"),
                                 set_state(q3, "wall_descend"),
                                 to_ceiling(q3, left, right),
                                 jump_off(q3)})
                   ELSE {q2}
          [] q1.state = "wall_descend" ->
               LET q2 == IF ~q1.is_fixed THEN [q1 EXCEPT !.y = @ + Px(5)] ELSE q1
                   q3 == [q2 EXCEPT !.y = floor_y(q2.screen_rect)]
               IN  IF q2.y >= floor_y(q2.screen_rect)
                   THEN {IF q3.wander_mode = "wall"
                         THEN set_state(q3, "wall_climb")
                         ELSE set_state(q3, "idle")}
                   ELSE {q2}
          [] OTHER -> {q1}

update_physics_wall_no_patrol(v, q) ==
    IF v = "V3" THEN update_physics_wall_V3(q)
    ELSE {[o EXCEPT !.wander_mode = q.wander_mode] :
            o \in update_physics_wall_333([q EXCEPT !.wander_mode = "none"])}

update_physics_wall_idle_descends(v, q) ==
    IF q.state = "wall_idle" THEN {set_state(wall_snap(q), "wall_descend")}
    ELSE IF v = "V3" THEN update_physics_wall_V3(q)
    ELSE update_physics_wall_333(q)

update_physics_wall(v, q) ==
    IF v = "V3" THEN update_physics_wall_V3(q) ELSE update_physics_wall_333(q)

\* the side-edge check that closes update_physics_ceiling
ceiling_edges(q) ==
    LET left == left_bound(q.screen_rect)
        right == right_bound(q.screen_rect)
        at_edge(q1, facing) ==
            CASE q1.wander_mode = "ceiling" -> [q1 EXCEPT !.look_right = facing]
              [] q1.wander_mode = "full" -> set_state(q1, "wall_descend")
              [] OTHER -> [set_state(q1, "drop") EXCEPT !.vy = 0]
    IN  IF q.x <= left THEN at_edge([q EXCEPT !.x = left], TRUE)
        ELSE IF q.x >= right THEN at_edge([q EXCEPT !.x = right], FALSE)
        ELSE q

\* drop_prob of the unprompted drop-off, in thousandths: src/333.py raises
\* it past 800 px, src/pet_V3.py does not
drop_prob(v, dist) == IF v = "333" /\ dist > 800 THEN 50 ELSE 5

update_physics_ceiling_early(v, q) ==
    LET speed == IF q.is_fixed THEN 0 ELSE 3
        q1 == [q EXCEPT !.y = ceiling_y(q.screen_rect),
                        !.x = IF q.look_right THEN @ + Px(speed)
                              ELSE @ - Px(speed),
                        !.ceiling_dist = @ + speed]
    IN  IF q1.wander_mode = "none" /\ q1.ceiling_dist >= 300
        THEN { IF r < drop_prob(v, q1.ceiling_dist)
               THEN [set_state(q1, "drop") EXCEPT !.vy = 0]
               ELSE ceiling_edges(q1)
             : r \in Draws }
        ELSE {ceiling_edges(q1)}

update_physics_ceiling(v, q) ==
    LET speed == IF q.is_fixed THEN 0 ELSE 3
        q1 == [q EXCEPT !.y = ceiling_y(q.screen_rect),
                        !.x = IF q.look_right THEN @ + Px(speed)
                              ELSE @ - Px(speed),
                        !.ceiling_dist = @ + speed]
    IN  IF q1.wander_mode = "none" /\ q1.ceiling_dist > 300
        THEN { IF r < drop_prob(v, q1.ceiling_dist)
               THEN [set_state(q1, "drop") EXCEPT !.vy = 0]
               ELSE ceiling_edges(q1)
             : r \in Draws }
        ELSE {ceiling_edges(q1)}

update_physics_floor_inward(q) ==
    IF q.state \in {"walk", "run", "ie_walk"}
    THEN LET speed == IF q.is_fixed THEN 0
                      ELSE IF q.state = "run" THEN 5 ELSE 2
             q1 == [q EXCEPT !.x = IF q.look_right THEN @ + Px(speed)
                                   ELSE @ - Px(speed)]
             left == left_bound(q.screen_rect)
             right == right_bound(q.screen_rect)
             next_state == IF q.wander_mode = "full" THEN "wall_climb"
                           ELSE "wall_idle"
         IN  IF q1.x <= left
             THEN set_state([q1 EXCEPT !.x = left, !.look_right = TRUE],
                            next_state)
             ELSE IF q1.x >= right
             THEN set_state([q1 EXCEPT !.x = right, !.look_right = FALSE],
                            next_state)
             ELSE q1
    ELSE q

update_physics_floor(q) ==
    IF q.state \in {"walk", "run", "ie_walk"}
    THEN LET speed == IF q.is_fixed THEN 0
                      ELSE IF q.state = "run" THEN 5 ELSE 2
             q1 == [q EXCEPT !.x = IF q.look_right THEN @ + Px(speed)
                                   ELSE @ - Px(speed)]
             left == left_bound(q.screen_rect)
             right == right_bound(q.screen_rect)
             next_state == IF q.wander_mode = "full" THEN "wall_climb"
                           ELSE "wall_idle"
         IN  IF q1.x <= left
             THEN set_state([q1 EXCEPT !.x = left, !.look_right = FALSE],
                            next_state)
             ELSE IF q1.x >= right
             THEN set_state([q1 EXCEPT !.x = right, !.look_right = TRUE],
                            next_state)
             ELSE q1
    ELSE q

physics_unpinned(v, q) ==
    CASE q.state \in StillStates -> {[q EXCEPT !.vx = 0, !.vy = 0]}
      [] q.state \in AirStates -> {update_physics_air(q)}
      [] q.state \in WallStates -> update_physics_wall(v, q)
      [] q.state = "ceiling_walk" -> update_physics_ceiling(v, q)
      [] q.state \in FloorStates -> {update_physics_floor(q)}
      [] OTHER -> {q}

\* the physics dispatch of update_tick
physics(v, q) ==
    IF q.is_fixed /\ q.state \notin AirStates
    THEN {q}
    ELSE CASE q.state \in StillStates -> {[q EXCEPT !.vx = 0, !.vy = 0]}
           [] q.state \in AirStates -> {update_physics_air(q)}
           [] q.state \in WallStates -> update_physics_wall(v, q)
           [] q.state = "ceiling_walk" -> update_physics_ceiling(v, q)
           [] q.state \in FloorStates -> {update_physics_floor(q)}
           [] OTHER -> {q}

\* "Move Window" at the end of update_tick
tick_move(q) ==
    IF q.is_fixed /\ q.state \notin AirStates THEN q ELSE move_window(q)

update_tick_no_suspend(v, d, q, can_spawn) ==
    UNION { {[o EXCEPT !.q = tick_move(q2)] : q2 \in physics(v, o.q)}
          : o \in update_animation_frame(v, update_screen_info(q, d, FALSE),
                                         can_spawn) }

\* update_tick: the outcomes of one timer tick of character q
update_tick(v, d, q, can_spawn) ==
    UNION { IF o.q.is_dragging
            THEN {o}
            ELSE {[o EXCEPT !.q = tick_move(q2)] : q2 \in physics(v, o.q)}
          : o \in update_animation_frame(v, update_screen_info(q, d, FALSE),
                                         can_spawn) }

----------------------------------------------------------------------------
(* Construction and the population manager.  A position is <<x, y>>; the   *)
(* empty tuple stands for None.                                            *)

None == <<>>

\* DesktopPet.__init__
DesktopPet(d, start_pos, start_state) ==
    LET primary_rect == availableGeometry(d, -1)
        x0 == IF start_pos # None THEN start_pos[1]
              ELSE Px(CenterX(primary_rect) - HALF_SPRITE)
        y0 == IF start_pos # None THEN start_pos[2]
              ELSE Px(primary_rect.top - SPRITE)
        q0 == update_screen_info(
                [Unmade EXCEPT !.made = TRUE, !.timer = TRUE,
                               !.x = x0, !.y = y0, !.state = start_state],
                d, TRUE)
    IN  move_window(update_image(q0))

FreeIds == {i \in Ids : ~pet[i].made}
NewId == CHOOSE i \in FreeIds : \A j \in FreeIds : i <= j

can_spawn == Len(pets) < MAX_PETS

\* what a spawn request leaves behind: the list, the objects, the new id
Refused == [pets |-> pets, pet |-> pet, new |-> 0]
Added(q) == [pets |-> Append(pets, NewId),
             pet |-> [pet EXCEPT ![NewId] = q],
             new |-> NewId]

\* the offset a clone starts at
offset(pos) == <<pos[1] + Px(20), pos[2] - Px(20)>>

\* src/pet_V3.py spawn_pet: the start position handed to DesktopPet, from
\* the coordinates given (source) or else the first live character's (first)
start_pos_V3(source, first) ==
    LET start == IF source # None THEN offset(source)
                 ELSE IF first # None THEN offset(first)
                 ELSE None
    IN  IF start # None /\ start[1] # 0 THEN start ELSE None

\* src/pet_V3.py spawn_pet: the character it constructs and launches
launched(d, source, first, vx) ==
    [DesktopPet(d, start_pos_V3(source, first), "drop")
        EXCEPT !.vx = vx, !.vy = -Px(5)]

\* src/333.py spawn_clone: the character it constructs and launches
cloned(d, q) ==
    [DesktopPet(d, offset(<<q.x, q.y>>), "drop")
        EXCEPT !.vy = -Px(5),
               !.vx = IF q.look_right THEN Px(2) ELSE -Px(2)]

\* the capacity check of spawn_pet and spawn_clone
at_capacity_off_by_one == Len(pets) > MAX_PETS
at_capacity == Len(pets) >= MAX_PETS

first_pos == IF pets # <<>> THEN <<pet[pets[1]].x, pet[pets[1]].y>> ELSE None

spawn_pet_unchecked(source) ==
    IF FreeIds = {} THEN {}
    ELSE {Added(launched(desktop, source, first_pos, vx)) : vx \in {-Px(2), Px(2)}}

\* src/pet_V3.py PetManager.spawn_pet
spawn_pet(source) ==
    IF at_capacity THEN {Refused}
    ELSE IF FreeIds = {} THEN {}
    ELSE {Added(launched(desktop, source, first_pos, vx)) : vx \in {-Px(2), Px(2)}}

\* src/333.py DesktopPet.spawn_clone
spawn_clone(q) ==
    IF at_capacity THEN {Refused}
    ELSE IF FreeIds = {} THEN {}
    ELSE {Added(cloned(desktop, q))}

clone_of_unchecked(q) ==
    IF version = "V3" THEN spawn_pet_unchecked(<<q.x, q.y>>) ELSE spawn_clone(q)

\* a clone asked for by character q, in either variant
clone_of(q) ==
    IF version = "V3" THEN spawn_pet(<<q.x, q.y>>) ELSE spawn_clone(q)

remove_pet_first(lst, p) == IF p \in {lst[i] : i \in DOMAIN lst} THEN Tail(lst) ELSE lst

\* remove_pet, applied to a list
remove_pet(lst, p) == SelectSeq(lst, LAMBDA i : i # p)

\* the part of the list set_max_pets closes
excess_oldest(lst, n) == IF Len(lst) > n THEN SubSeq(lst, 1, Len(lst) - n) ELSE <<>>
excess(lst, n) == IF Len(lst) > n THEN SubSeq(lst, n + 1, Len(lst)) ELSE <<>>

Range(f) == {f[i] : i \in DOMAIN f}

----------------------------------------------------------------------------
(* Handlers of the character that the user drives: context menu and mouse *)

DebugKeys == {"born", "sit", "sit_idle", "sitloop", "struggle", "walk", "run",
              "wall_climb", "ceiling_walk", "ie_walk", "wall_wander",
              "ceiling_wander", "wander", "stop_wander"}

start_wall_wander(q) ==
    set_state(snap_to_nearest_wall([q EXCEPT !.wander_mode = "wall"]),
              "wall_climb")

\* src/333.py
start_wall_climb_action(q) ==
    set_state(snap_to_nearest_wall([q EXCEPT !.wander_mode = "none"]),
              "wall_climb")

\* the slot contextMenuEvent connects to the debug entry `key`
debug_action(v, q, key) ==
    CASE key = "wall_wander" -> start_wall_wander(q)
      [] key = "wall_climb" ->
            IF v = "V3" THEN set_state(snap_to_nearest_wall(q), "wall_climb")
            ELSE start_wall_climb_action(q)
      [] key = "ceiling_wander" ->
            set_state([q EXCEPT !.wander_mode = "ceiling"], "ceiling_walk")
      [] key = "wander" -> set_state([q EXCEPT !.wander_mode = "full"], "walk")
      [] key = "stop_wander" ->
            set_state([q EXCEPT !.wander_mode = "none"], "idle")
      [] OTHER -> set_state(q, key)

\* mousePressEvent with the left button, the pointer at win + off
mousePressEvent(q, off) ==
    [q EXCEPT !.is_dragging = TRUE,
              !.mouse_history = <<>>,
              !.drag_offset = off,
              !.last_drag_x = q.win[1] + off[1]]

\* the drag-feedback state chosen from dx: src/pet_V3.py has no slow states
drag_feedback(v, q, dx) ==
    IF v = "V3"
    THEN (CASE dx < -2 -> [set_state(q, "drag_left_fast") EXCEPT !.look_right = FALSE]
            [] dx > 2 -> [set_state(q, "drag_right_fast") EXCEPT !.look_right = TRUE]
            [] OTHER -> q)
    ELSE (CASE dx < -2 -> [set_state(q, "drag_left_fast") EXCEPT !.look_right = FALSE]
            [] dx >= -2 /\ dx < 0 ->
                 [set_state(q, "drag_left_slow") EXCEPT !.look_right = FALSE]
            [] dx > 2 -> [set_state(q, "drag_right_fast") EXCEPT !.look_right = TRUE]
            [] dx > 0 /\ dx <= 2 ->
                 [set_state(q, "drag_right_slow") EXCEPT !.look_right = TRUE]
            [] OTHER -> q)

push_history(h, g) ==
    LET h1 == Append(h, g)
    IN  IF Len(h1) > HISTORY_LEN THEN Tail(h1) ELSE h1

\* mouseMoveEvent with the left button held, the pointer at g
mouseMoveEvent(v, q, g) ==
    IF ~q.is_dragging THEN q
    ELSE LET q1 == drag_feedback(v, [q EXCEPT !.last_drag_x = g[1]],
                                 g[1] - q.last_drag_x)
         IN  move_window([q1 EXCEPT !.x = Px(g[1] - q.drag_offset[1]),
                                    !.y = Px(g[2] - q.drag_offset[2]),
                                    !.mouse_history = push_history(@, g)])

\* the launch that closes mouseReleaseEvent
launch(q) ==
    LET h == q.mouse_history
        vx == IF Len(h) >= 2 THEN DragVelocity(h[Len(h)][1] - h[1][1]) ELSE 0
        vy == IF Len(h) >= 2 THEN DragVelocity(h[Len(h)][2] - h[1][2]) ELSE 0
        q1 == [q EXCEPT !.vx = vx, !.vy = vy]
    IN  IF vx < -Px(2) THEN [set_state(q1, "fly") EXCEPT !.look_right = FALSE]
        ELSE IF vx > Px(2)
        THEN [set_state(q1, "drag_throw") EXCEPT !.look_right = TRUE]
        ELSE set_state(q1, "drop")

\* mouseReleaseEvent with the left button; src/333.py respawns a character
\* released below the abyss threshold
mouseReleaseEvent(v, q) ==
    LET q1 == [q EXCEPT !.is_dragging = FALSE]
    IN  IF v = "333" /\ q1.y > abyss_threshold(q1.screen_rect)
        THEN respawn_at_top(q1)
        ELSE launch(q1)

\* where the pointer grabs the window, and where it is moved to
Offsets == {<<64, 64>>}
Pointers == {<<44, 100>>, <<150, 100>>, <<153, 100>>, <<151, 284>>}

----------------------------------------------------------------------------
(* The state machine *)

Versions == {"V3", "333"}

\* one monitor of 400 x 300 pixels: wall columns x = 0 and x = 216, floor
\* line y = 121, abyss line y = 219, midpoint x = 199
SmallDesktop == << [left |-> 0, top |-> 0, right |-> 399, bottom |-> 299] >>

\* the same monitor as primary and a second one of 400 x 300 to its right
DualDesktop ==
    << [left |-> 0, top |-> 0, right |-> 399, bottom |-> 299],
       [left |-> 400, top |-> 0, right |-> 799, bottom |-> 299] >>

Ev(op, p, new, arg) ==
    [op |-> op, p |-> p,
     before |-> IF p \in Ids THEN pet[p] ELSE Unmade,
     new |-> new, arg |-> arg, count |-> Len(pets)]

Visible(p) == p \in Range(pets)

\* the first character of __main__: src/pet_V3.py spawns it through the
\* manager (which launches it), src/333.py constructs it and adds it
first_pet(v, d, vx) ==
    IF v = "V3" THEN launched(d, None, None, vx)
    ELSE DesktopPet(d, None, "drop")

\* the first of the outcomes c of a tick of q; q itself when there is none
first_of(c, q) == IF c = {} THEN q ELSE (CHOOSE o \in c : TRUE).q

\* one tick of q that ends in the state st, if a tick can; else q
tick_to(v, d, q, st) ==
    first_of({o \in update_tick(v, d, q, TRUE) : o.q.state = st}, q)

\* Where a run of ticks stops:
\*   "idle"   the character stands in idle
\*   "edge"   it is within one step of a side wall
\*   "top"    it is within one step of the top of the monitor
\*   "floor"  it is within one step of the floor line
\*   "side"   it is within one step of the side wall it faces
\*   "last"   the next tick completes the frame sequence of its state
\*   "ticks", "kept"  nowhere before the ticks are used up
halted(q, how) ==
    CASE how = "idle" -> q.state = "idle"
      [] how = "edge" -> \/ q.x - Px(5) <= left_bound(q.screen_rect)
                         \/ q.x + Px(5) >= right_bound(q.screen_rect)
      [] how = "top" -> q.y - Px(5) <= ceiling_y(q.screen_rect)
      [] how = "floor" -> q.y + Px(5) >= floor_y(q.screen_rect)
      [] how = "side" ->
            \/ ~q.look_right /\ q.x - Px(5) <= left_bound(q.screen_rect)
            \/ q.look_right /\ q.x + Px(5) >= right_bound(q.screen_rect)
      [] how = "last" -> /\ q.frame_index = NumFrames(q.state) - 1
                         /\ q.frame_timer + TICK_MS >= Dur(q.state)
      [] OTHER -> ~q.made

\* the outcomes of a tick of q that a run of ticks goes on with: any outcome
\* for "ticks" and "idle", those that keep the state of q for the others
going(c, q, how) ==
    IF how \in {"ticks", "idle"} THEN c ELSE {o \in c : o.q.state = q.state}

\* q ticked until it is halted, or no tick goes on, or n ticks are used up
RECURSIVE run(_, _, _, _, _)
RECURSIVE run_on(_, _, _, _, _, _)
run(v, d, q, how, n) ==
    IF n = 0 \/ halted(q, how) THEN q
    ELSE run_on(v, d, q,
                first_of(going(update_tick(v, d, q, TRUE), q, how), q),
                how, n - 1)

run_on(v, d, q, q2, how, n) == IF q2 = q THEN q ELSE run(v, d, q2, how, n)

\* the longest run of ticks taken in one piece
MaxRun == 50

\* One handler of a scene applied to q; h is <<name, argument>>:
\*   <<"press", off>>   mousePressEvent at the offset off
\*   <<"move", g>>      mouseMoveEvent with the pointer at g
\*   <<"release", 0>>   mouseReleaseEvent
\*   <<"debug", key>>   the debug entry key of the context menu
\*   <<"pin", 0>>       the pin entry of the context menu, toggled on
\*   <<"to", st>>       one tick that ends in the state st
\*   <<how, n>>         ticks, up to n of them, until halted(q, how)
handled(v, d, q, h) ==
    CASE h[1] = "press" -> mousePressEvent(q, h[2])
      [] h[1] = "move" -> mouseMoveEvent(v, q, h[2])
      [] h[1] = "release" -> mouseReleaseEvent(v, q)
      [] h[1] = "debug" -> debug_action(v, q, h[2])
      [] h[1] = "pin" -> [q EXCEPT !.is_fixed = TRUE]
      [] h[1] = "to" -> tick_to(v, d, q, h[2])
      [] OTHER -> run(v, d, q, h[1],
                      IF h[2] > MaxRun THEN MaxRun ELSE h[2])

\* what is left of the handlers hs once the first one was applied
rest_of(hs) ==
    IF Head(hs)[1] \in {"press", "move", "release", "debug", "pin", "to"}
       \/ Head(hs)[2] <= MaxRun
    THEN Tail(hs)
    ELSE << <<Head(hs)[1], Head(hs)[2] - MaxRun>> >> \o Tail(hs)

\* q after the handlers hs, in their order
RECURSIVE played(_, _, _, _)
played(v, d, q, hs) ==
    IF hs = << >> \/ ~q.made THEN q
    ELSE played(v, d, handled(v, d, q, Head(hs)), rest_of(hs))

\* States the first character reaches from the program's start, each given
\* as the handlers that lead to it:
\*   "start"   nothing yet
\*   "landed"  ticks until it stands in idle
\*   "ripe"    99 more ticks: the idle sequence completes at the next one
\*   "born"    landed, debug entry "born", 59 ticks: born completes next
\*   "held"    landed, left button pressed on it
\*   "thrown"  held, pointer moved so that x = -20, button released
\*   "sunk"    held, pointer moved so that y = bottom - 79
\*   "plunged" held, pointer moved down in two steps to y = bottom - 80
\*   "pinned"  landed, pin entry of the context menu toggled on
\*   "dived"   held, pointer moved right and then down-left below the
\*             abyss line
\*   "east"    landed, debug entry "walk", ticks up to the right wall
\*   "west"    held, pulled to the left and let go, landed again, debug
\*             entry "walk", ticks up to the left wall
\*   "patrol"  landed, debug entry "wander", ticks up to the right wall
\*   "climber" landed, debug entry "wall_climb", ticks up to the top
\*   "looper"  landed, debug entry "wall_wander", ticks up to the top
\*   "rounder" landed, debug entry "wander", ticks to the right wall and
\*             onto it, ticks up to the top
\*   "scaler"  west, one tick onto the left wall, debug entry "wall_climb",
\*             ticks up to the top
\*   "descender" looper, one tick into wall_descend, ticks down to the floor
\*   "slider"  climber, one tick into wall_descend, ticks down to the floor
\*   "lander"  rounder, one tick into ceiling_walk, ticks across to the
\*             other wall, one tick into wall_descend, ticks down to the floor
\*   "percher" climber, one tick into wall_idle at the top
\*   "stuck"   pinned, ticks to the end of the idle sequence
\*   "nailed"  landed, debug entry "walk", pin entry toggled on, ticks to
\*             the end of the walk sequence
\*   "seated"  landed, debug entry "sit", ticks to the end of the sequence
\*   "resting" landed, debug entry "sit_idle", ticks to the end
\*   "looping" landed, debug entry "sitloop", ticks to the end
\*   "rising"  resting, one tick into standup, ticks to the end
\*   "swung"   held, seven pointer samples, the last one up and to the right
\*   "nudged"  held, two pointer samples 7 px apart to the right, button
\*             released (vx = 2.1), one tick
\*   "strider" landed, debug entry "wander"
\*   "sat"     landed, debug entry "sit"
\*   "pinsat"  pinned, debug entry "sit"
\*   "hoisted" debug entry "ceiling_walk" chosen right after the start,
\*             while the character is in the air, ticks up to the wall it
\*             faces
\*   "abroad"  held, carried to the second monitor, one tick there, then
\*             lifted above the top of every monitor
\*   "across"  held, carried to the second monitor
Scenes == {"start", "landed", "ripe", "born", "held", "thrown", "sunk",
           "plunged", "pinned", "dived", "east", "west", "patrol",
           "climber", "looper", "rounder", "scaler", "descender", "slider",
           "lander", "percher", "stuck", "nailed", "seated", "resting",
           "looping", "rising", "swung", "nudged", "hoisted"}

Script(name) ==
    LET landed == << <<"idle", 40>> >>
        held == landed \o << <<"press", <<64, 64>> >> >>
        walker == landed \o << <<"debug", "wander">> >>
        rounder == walker \o << <<"kept", 60>>, <<"to", "wall_climb">>,
                                <<"top", 40>> >>
        climber == landed \o << <<"debug", "wall_climb">>, <<"top", 40>> >>
        looper == landed \o << <<"debug", "wall_wander">>, <<"top", 40>> >>
        west == held \o << <<"move", <<150, 185>> >>, <<"release", 0>>,
                           <<"idle", 40>>, <<"debug", "walk">>,
                           <<"edge", 90>> >>
        resting == landed \o << <<"debug", "sit_idle">>, <<"last", 200>> >>
        wide == << <<"idle", 60>> >>
        crest == << <<"top", 40>>, <<"to", "ceiling_walk">> >>
    IN  CASE name = "start" -> << >>
          [] name = "landed" -> landed
          [] name = "ripe" -> landed \o << <<"ticks", 99>> >>
          [] name = "born" ->
                landed \o << <<"debug", "born">>, <<"ticks", 59>> >>
          [] name = "held" -> held
          [] name = "thrown" ->
                held \o << <<"move", <<44, 100>> >>, <<"release", 0>> >>
          [] name = "sunk" -> held \o << <<"move", <<151, 284>> >> >>
          [] name = "plunged" ->
                held \o << <<"move", <<151, 100>> >>,
                           <<"move", <<151, 283>> >> >>
          [] name = "pinned" -> landed \o << <<"pin", 0>> >>
          [] name = "dived" ->
                held \o << <<"move", <<151, 100>> >>,
                           <<"move", <<44, 284>> >> >>
          [] name = "east" ->
                landed \o << <<"debug", "walk">>, <<"edge", 60>> >>
          [] name = "west" -> west
          [] name = "patrol" -> walker \o << <<"edge", 60>> >>
          [] name = "climber" -> climber
          [] name = "looper" -> looper
          [] name = "rounder" -> rounder
          [] name = "scaler" ->
                west \o << <<"ticks", 1>>, <<"debug", "wall_climb">>,
                           <<"top", 40>> >>
          [] name = "descender" ->
                looper \o << <<"to", "wall_descend">>, <<"floor", 40>> >>
          [] name = "slider" ->
                climber \o << <<"to", "wall_descend">>, <<"floor", 40>> >>
          [] name = "lander" ->
                rounder \o << <<"to", "ceiling_walk">>, <<"kept", 90>>,
                              <<"to", "wall_descend">>, <<"floor", 40>> >>
          [] name = "percher" -> climber \o << <<"to", "wall_idle">> >>
          [] name = "stuck" -> landed \o << <<"pin", 0>>, <<"last", 200>> >>
          [] name = "nailed" ->
                landed \o << <<"debug", "walk">>, <<"pin", 0>>,
                             <<"last", 200>> >>
          [] name = "seated" ->
                landed \o << <<"debug", "sit">>, <<"last", 200>> >>
          [] name = "resting" -> resting
          [] name = "looping" ->
                landed \o << <<"debug", "sitloop">>, <<"last", 200>> >>
          [] name = "rising" ->
                resting \o << <<"to", "standup">>, <<"last", 200>> >>
          [] name = "swung" ->
                held \o << <<"move", <<44, 100>> >>, <<"move", <<150, 100>> >>,
                           <<"move", <<153, 100>> >>, <<"move", <<150, 100>> >>,
                           <<"move", <<151, 100>> >>, <<"move", <<153, 100>> >>,
                           <<"move", <<170, 90>> >> >>
          [] name = "nudged" ->
                held \o << <<"move", <<150, 100>> >>, <<"move", <<157, 100>> >>,
                           <<"release", 0>>, <<"ticks", 1>> >>
          [] name = "strider" -> walker
          [] name = "sat" -> landed \o << <<"debug", "sit">> >>
          [] name = "pinsat" ->
                landed \o << <<"pin", 0>>, <<"debug", "sit">> >>
          [] name = "hoisted" ->
                << <<"debug", "ceiling_walk">>, <<"side", 200>> >>
          [] name = "across" -> held \o << <<"move", <<664, 185>> >> >>
          [] name = "abroad" ->
                held \o << <<"move", <<664, 185>> >>, <<"ticks", 1>>,
                           <<"move", <<664, -10>> >> >>
          [] name = "crawler" ->
                wide \o << <<"debug", "wall_climb">> >> \o crest
                     \o << <<"kept", 200>> >>
          [] name = "halfway" ->
                wide \o << <<"debug", "wall_climb">> >> \o crest
                     \o << <<"kept", 99>> >>
          [] name = "circuit" ->
                wide \o << <<"debug", "wander">>, <<"kept", 150>>,
                           <<"to", "wall_climb">> >> \o crest
                     \o << <<"kept", 200>> >>
          [] name = "pacer" ->
                wide \o << <<"debug", "ceiling_wander">>, <<"side", 200>> >>
          [] name = "summit" ->
                wide \o << <<"debug", "wall_climb">>, <<"top", 40>> >>

scene(v, d, vx, name) == played(v, d, first_pet(v, d, vx), Script(name))

\* The program after its start: the first character in one of the scenes
\* `names` and, behind it, crowd - 1 clones just spawned from the tray.
InitOn(d, names, crowds, c, t) ==
    /\ version \in Versions
    /\ desktop = d
    /\ MAX_PETS = DEFAULT_MAX_PETS
    /\ \E vx \in {-Px(2), Px(2)}, name \in names, crowd \in crowds :
         \E q1 \in {scene(version, desktop, vx, name)} :
             /\ pets = [i \in 1..crowd |-> i]
             /\ pet = [i \in Ids |->
                         IF i = 1 THEN q1
                         ELSE IF i > crowd THEN Unmade
                         ELSE IF version = "V3"
                         THEN launched(desktop, None, <<q1.x, q1.y>>, vx)
                         ELSE cloned(desktop, q1)]
             /\ event = [op |-> "main", p |-> 1, before |-> Unmade,
                         new |-> crowd, arg |-> 0, count |-> 0]
    /\ cmds = c
    /\ ticks = t
    /\ running = TRUE

InitWith(names, crowds, c, t) == InitOn(SmallDesktop, names, crowds, c, t)

Init == InitWith(Scenes, {1}, MaxCmds, MaxTicks)

Command == running /\ cmds > 0 /\ cmds' = cmds - 1 /\ ticks' = ticks

Same == UNCHANGED <<version, desktop, running>>

\* QTimer.timeout of character p -> update_tick
Tick(p) ==
    /\ running /\ pet[p].made /\ pet[p].timer
    /\ ticks # 0
    /\ ticks' = IF ticks < 0 THEN ticks ELSE ticks - 1
    /\ \E o \in update_tick(version, desktop, pet[p], can_spawn) :
         IF o.spawn
         THEN \E s \in clone_of(pet[p]) :
                /\ pets' = s.pets
                /\ pet' = [s.pet EXCEPT ![p] = o.q]
                /\ event' = Ev("born_done", p, s.new, o.done)
         ELSE /\ pets' = pets
              /\ pet' = [pet EXCEPT ![p] = o.q]
              /\ event' = Ev("tick", p, 0, o.done)
    /\ UNCHANGED <<MAX_PETS, cmds>>
    /\ Same

\* tray menu: spawn.  In src/333.py the tray belongs to the first character
\* constructed and spawns from it.
TraySpawn ==
    /\ Command
    /\ \E s \in (IF version = "V3" THEN spawn_pet(None) ELSE spawn_clone(pet[1])) :
         /\ pets' = s.pets
         /\ pet' = s.pet
         /\ event' = Ev("tray_spawn", 0, s.new, 0)
    /\ UNCHANGED MAX_PETS
    /\ Same

\* context menu: spawn a clone of p
MenuSpawn(p) ==
    /\ Command /\ Visible(p)
    /\ \E s \in clone_of(pet[p]) :
         /\ pets' = s.pets
         /\ pet' = s.pet
         /\ event' = Ev("menu_spawn", p, s.new, 0)
    /\ UNCHANGED MAX_PETS
    /\ Same

\* context menu: close p.  Neither closeEvent (src/pet_V3.py) nor close_pet
\* (src/333.py) stops the timer, and the menu's slots keep the object alive.
MenuClose(p) ==
    /\ Command /\ Visible(p)
    /\ pets' = remove_pet(pets, p)
    /\ pet' = pet
    /\ event' = Ev("close", p, 0, 0)
    /\ running' = IF version = "333" /\ pets' = <<>> THEN FALSE ELSE running
    /\ UNCHANGED <<version, desktop, MAX_PETS>>

\* `for pet in gone: pet.close()`: each closeEvent takes its pet off the list
RECURSIVE close_each(_, _)
close_each(lst, gone) ==
    IF gone = <<>> THEN lst
    ELSE close_each(remove_pet(lst, Head(gone)), Tail(gone))

\* The objects after the manager closed the characters in `gone`: closeEvent
\* stops no timer, so a closed character ticks on for as long as something
\* still refers to the object (the slots of a context menu it once showed);
\* an object nothing refers to is reclaimed, and its timer with it.
after_close(gone) ==
    { [i \in Ids |-> IF i \in gone /\ i \notin kept
                     THEN [pet[i] EXCEPT !.timer = FALSE] ELSE pet[i]]
      : kept \in SUBSET gone }

\* tray menu of src/pet_V3.py: set the maximum (the dialog offers 1..50)
SetMaxPets(n) ==
    /\ Command /\ version = "V3"
    /\ MAX_PETS' = n
    /\ pets' = close_each(pets, excess(pets, n))
    /\ pet' \in after_close(Range(excess(pets, n)))
    /\ event' = Ev("set_max_pets", 0, 0, n)
    /\ Same

\* tray menu of src/pet_V3.py: remove all
RemoveAll ==
    /\ Command /\ version = "V3"
    /\ pets' = close_each(pets, pets)
    /\ pet' \in after_close(Range(pets))
    /\ event' = Ev("remove_all", 0, 0, 0)
    /\ UNCHANGED MAX_PETS
    /\ Same

\* a handler that changes character p alone
Alone(op, p, q) ==
    /\ pet' = [pet EXCEPT ![p] = q]
    /\ event' = Ev(op, p, 0, 0)
    /\ UNCHANGED <<pets, MAX_PETS>>
    /\ Same

\* context menu: a debug entry
MenuDebug(p, key) ==
    /\ Command /\ Visible(p)
    /\ Alone("debug", p, debug_action(version, pet[p], key))

\* context menu: the pin toggle
MenuFix(p) ==
    /\ Command /\ Visible(p)
    /\ Alone("fix", p, [pet[p] EXCEPT !.is_fixed = ~@])

\* context menu: reset to the top
MenuRespawn(p) ==
    /\ Command /\ Visible(p)
    /\ Alone("respawn", p, respawn_at_top(pet[p]))

MousePress(p, off) ==
    /\ Command /\ Visible(p) /\ ~pet[p].is_dragging
    /\ pet' = [pet EXCEPT ![p] = mousePressEvent(pet[p], off)]
    /\ event' = Ev("press", p, 0, off)
    /\ UNCHANGED <<pets, MAX_PETS>>
    /\ Same

MouseMove(p, g) ==
    /\ Command /\ Visible(p) /\ pet[p].is_dragging
    /\ pet' = [pet EXCEPT ![p] = mouseMoveEvent(version, pet[p], g)]
    /\ event' = Ev("move", p, 0, g)
    /\ UNCHANGED <<pets, MAX_PETS>>
    /\ Same

MouseRelease(p) ==
    /\ Command /\ Visible(p) /\ pet[p].is_dragging
    /\ Alone("release", p, mouseReleaseEvent(version, pet[p]))

Next ==
    \/ \E p \in Ids : Tick(p)
    \/ TraySpawn
    \/ \E p \in Ids : MenuSpawn(p)
    \/ \E p \in Ids : MenuClose(p)
    \/ \E n \in 1..MaxSetting : SetMaxPets(n)
    \/ RemoveAll
    \/ \E p \in Ids, key \in DebugKeys : MenuDebug(p, key)
    \/ \E p \in Ids : MenuFix(p)
    \/ \E p \in Ids : MenuRespawn(p)
    \/ \E p \in Ids, off \in Offsets : MousePress(p, off)
    \/ \E p \in Ids, g \in Pointers : MouseMove(p, g)
    \/ \E p \in Ids : MouseRelease(p)

Spec == Init /\ [][Next]_vars

\* The population manager alone: spawning, closing and the maximum, with the
\* ticks of the characters, from a population of 1 or 4.
InitPop == InitWith({"landed", "born", "thrown"}, {1, 4}, MaxPopCmds, MaxPopTicks)

NextPop ==
    \/ \E p \in Ids : Tick(p)
    \/ TraySpawn
    \/ \E p \in Ids : MenuSpawn(p)
    \/ \E p \in Ids : MenuClose(p)
    \/ \E n \in 1..MaxSetting : SetMaxPets(n)
    \/ RemoveAll

SpecPop == InitPop /\ [][NextPop]_vars

\* A monitor wide enough for a walk of more than 300 px along its ceiling.
\*   "crawler"  landed, debug entry "wall_climb", ticks up to the top, one
\*              tick into ceiling_walk, ticks across to the other wall
\*   "halfway"  the same, 99 ticks across: 297 px traveled
\*   "circuit"  landed, debug entry "wander", ticks to the wall, up to the
\*              top, one tick into ceiling_walk, ticks across
\*   "pacer"    landed, debug entry "ceiling_wander", ticks up to the wall
\*              it faces
\*   "summit"   landed, debug entry "wall_climb", ticks up to the top
CeilScenes == {"crawler", "halfway", "circuit", "pacer", "summit"}

WideDesktop == << [left |-> 0, top |-> 0, right |-> 600, bottom |-> 299] >>

InitCeil ==
    /\ version \in Versions
    /\ desktop = WideDesktop
    /\ MAX_PETS = DEFAULT_MAX_PETS
    /\ pets = <<1>>
    /\ \E vx \in {-Px(2), Px(2)}, name \in CeilScenes :
         pet = [i \in Ids |->
                  IF i = 1 THEN scene(version, desktop, vx, name)
                  ELSE Unmade]
    /\ event = [op |-> "main", p |-> 1, before |-> Unmade,
                new |-> 1, arg |-> 0, count |-> 0]
    /\ cmds = MaxCmds
    /\ ticks = MaxTicks
    /\ running = TRUE

NextCeil ==
    \/ \E p \in Ids : Tick(p)
    \/ \E p \in Ids, key \in DebugKeys : MenuDebug(p, key)

SpecCeil == InitCeil /\ [][NextCeil]_vars

\* Two monitors: the first character is carried by the pointer from the
\* primary monitor to the second one and beyond the edge of both.
DualScenes == {"landed", "held", "across", "abroad"}

InitDual == InitOn(DualDesktop, DualScenes, {1}, MaxCmds, MaxTicks)

NextDual ==
    \/ \E p \in Ids : Tick(p)
    \/ \E p \in Ids, off \in Offsets : MousePress(p, off)
    \/ \E p \in Ids, g \in Pointers : MouseMove(p, g)
    \/ \E p \in Ids : MouseRelease(p)

SpecDual == InitDual /\ [][NextDual]_vars

\* One patrol: the first character, landed and sent on full patrol from the
\* debug menu, ticked by its timer with no command after that.
InitPatrol == InitWith({"strider"}, {1}, 0, -1)

Patrol(p) == pet[p].wander_mode = "full" /\ Tick(p)

NextPatrol == \E p \in Ids : Patrol(p)

\* a tick that takes a character into the state st
Enter(st) ==
    \E p \in Ids : Tick(p) /\ pet[p].state # st /\ pet'[p].state = st

\* random.random() is fair: a walk (which ends the tick in walk, or in
\* wall_climb when it starts at a wall) and standup, which the draws at the
\* end of idle, sit_idle and sitloop could choose again and again, are
\* chosen at last
FairDraws ==
    /\ SF_vars(Enter("walk"))
    /\ SF_vars(Enter("wall_climb"))
    /\ SF_vars(Enter("standup"))

\* the QTimer of a live character fires every 30 ms
SpecPatrol == InitPatrol /\ [][NextPatrol]_vars /\ WF_vars(NextPatrol) /\ FairDraws

\* One sitting: the first character, pinned or not, has just entered sit and
\* is ticked by its timer until it stands in idle again.
SitStates == {"sit", "sit_idle", "sitloop", "standup"}

InitSit == InitWith({"sat", "pinsat"}, {1}, 0, -1)

Sitting(p) == pet[p].state \in SitStates /\ Tick(p)

NextSit == \E p \in Ids : Sitting(p)

\* the QTimer of a live character fires every 30 ms, and random.random() is
\* fair: standup, which the draws at the end of sit_idle and of sitloop can
\* choose again and again, is chosen at last
SpecSit ==
    InitSit /\ [][NextSit]_vars /\ WF_vars(NextSit) /\ SF_vars(Enter("standup"))

\* One fall: a character in drop at a position and with a velocity that a
\* release, a spawn, a respawn or a drop from the ceiling leaves it with,
\* ticked by its timer for as long as it is in the air.
FallXs == {0, 3, 108, 216}
FallYs == {-128, 0, 100, 120}
FallVxs == {-2, 0, 2}
FallVys == {-5, 0, 2, 36}

InitFall ==
    /\ version \in Versions
    /\ desktop = SmallDesktop
    /\ MAX_PETS = DEFAULT_MAX_PETS
    /\ pets = <<1>>
    /\ \E x \in FallXs, y \in FallYs, vx \in FallVxs, vy \in FallVys :
         pet = [i \in Ids |->
                  IF i = 1
                  THEN [DesktopPet(desktop, <<Px(x), Px(y)>>, "drop")
                           EXCEPT !.vx = Px(vx), !.vy = Px(vy)]
                  ELSE Unmade]
    /\ event = [op |-> "main", p |-> 1, before |-> Unmade,
                new |-> 1, arg |-> 0, count |-> 0]
    /\ cmds = 0
    /\ ticks = -1
    /\ running = TRUE

Fall(p) == pet[p].state \in AirStates /\ Tick(p)

NextFall == \E p \in Ids : Fall(p)

\* the QTimer of a live character fires every 30 ms
SpecFall == InitFall /\ [][NextFall]_vars /\ WF_vars(NextFall)

----------------------------------------------------------------------------
(* The population manager: capacity, refusal, eviction, removal *)

SpawnOps == {"tray_spawn", "menu_spawn"}

\* C1: in every reachable state the number of live characters (the
\* manager's list) is at most the maximum currently configured.
C1_PopulationBound == Len(pets) <= MAX_PETS

\* a spawn (from the tray, a menu or the end of born) has just filled the
\* population up to the maximum
C1_Witness ==
    /\ event.op \in SpawnOps \cup {"born_done"}
    /\ event.new # 0
    /\ Len(pets) = MAX_PETS
    /\ event.count = MAX_PETS - 1

\* C2: a spawn requested while the live count equals (or exceeds) the maximum
\* changes nothing: no object is made, the list and every character are as
\* before.  A spawn requested below the maximum, as after the maximum was
\* raised by one, appends exactly one new character to the list.
C2_SpawnStep ==
    event'.op \in SpawnOps =>
        IF Len(pets) >= MAX_PETS
        THEN /\ pets' = pets
             /\ pet' = pet
             /\ MAX_PETS' = MAX_PETS
             /\ event'.new = 0
        ELSE /\ Len(pets') = Len(pets) + 1
             /\ SubSeq(pets', 1, Len(pets)) = pets
             /\ pets'[Len(pets')] = event'.new
             /\ ~pet[event'.new].made
             /\ pet'[event'.new].made
             /\ \A i \in Ids \ {event'.new} : pet'[i] = pet[i]

C2_Refusal == [][C2_SpawnStep]_vars

\* a spawn was requested with exactly MAX_PETS live characters and refused
C2_Witness ==
    /\ event.op \in SpawnOps
    /\ event.count = MAX_PETS
    /\ event.new = 0
    /\ Len(pets) = MAX_PETS

\* C3: set_max_pets(n) with n below the live count leaves exactly the n
\* characters spawned first, in their order and untouched; the ones it
\* closes are those spawned after them.
C3_SetMaxStep ==
    (event'.op = "set_max_pets" /\ event'.arg < Len(pets)) =>
        /\ MAX_PETS' = event'.arg
        /\ pets' = SubSeq(pets, 1, event'.arg)
        /\ \A i \in 1..event'.arg : pet'[pets[i]] = pet[pets[i]]

C3_Eviction == [][C3_SetMaxStep]_vars

\* the maximum was set below a live count of at least 3 and characters
\* were evicted
C3_Witness ==
    /\ event.op = "set_max_pets"
    /\ event.count >= 3
    /\ event.arg < event.count
    /\ Len(pets) = event.arg

Removed(p) == pet[p].made /\ ~Visible(p)

\* C4: once a character is removed no tick of it is delivered: its object
\* never changes again and it adds no clone to the population.
C4_RemovedStep ==
    \A p \in Ids :
        Removed(p) =>
            /\ pet'[p] = pet[p]
            /\ ~(event'.op \in {"tick", "born_done"} /\ event'.p = p
                 /\ ticks' # ticks)

C4_RemovedIsSilent == [][C4_RemovedStep]_vars

----------------------------------------------------------------------------
(* The character: abyss, wall snap, animation clock, spawn position *)

\* the character a tick (or the end of born) has just acted on, before
\* and after
Ticked == event.op \in {"tick", "born_done"}
Before == event.before
After == pet[event.p]

\* an airborne tick of a character that is not dragged: update_physics_air ran
AirTick == Ticked /\ Before.state \in AirStates /\ ~Before.is_dragging

\* C6: an airborne tick whose position update leaves y greater than
\* bottom - 80 ends respawned: x = monitor centre - 64, y = top - 128,
\* vx = 0, vy = 2, state drop; and no tick ends with an airborne character
\* that is not dragged below that line.
C6_AbyssRespawn ==
    /\ (AirTick /\ Before.y + Before.vy > abyss_threshold(After.screen_rect)) =>
          /\ After.x = Px(CenterX(After.screen_rect) - HALF_SPRITE)
          /\ After.y = Px(After.screen_rect.top - SPRITE)
          /\ After.vx = 0
          /\ After.vy = Px(2)
          /\ After.state = "drop"
    /\ (Ticked /\ After.state \in AirStates /\ ~After.is_dragging) =>
          After.y <= abyss_threshold(After.screen_rect)

\* the example of the claim: drop at y = bottom - 79 with vy = 0, one tick,
\* respawned at the top
C6_Witness ==
    /\ AirTick
    /\ Before.state = "drop"
    /\ Before.y = Px(Before.screen_rect.bottom - 79)
    /\ Before.vy = 0
    /\ After.y = Px(After.screen_rect.top - SPRITE)
    /\ After.vy = Px(2)
    /\ After.state = "drop"

\* a tick of a wall-attached character that runs update_physics_wall and
\* leaves it wall-attached
WallTick ==
    /\ Ticked
    /\ Before.state \in WallStates /\ After.state \in WallStates
    /\ ~Before.is_dragging /\ ~Before.is_fixed

C8_FrameIndexBound ==
    \A p \in Ids :
        pet[p].made =>
            /\ 0 <= pet[p].frame_index
            /\ pet[p].frame_index < NumFrames(pet[p].state)

\* a tick completed a sequence of several frames: the index, on its last
\* frame before, wrapped
C8_Witness ==
    /\ Ticked
    /\ NumFrames(Before.state) > 1
    /\ Before.frame_index = NumFrames(Before.state) - 1
    /\ After.frame_index = 0

\* C9: every step that changes a character's state leaves its frame_index
\* and frame_timer at 0.
C9_ResetStep ==
    \A p \in Ids :
        (pet[p].made /\ pet'[p].state # pet[p].state) =>
            /\ pet'[p].frame_index = 0
            /\ pet'[p].frame_timer = 0

C9_StateReset == [][C9_ResetStep]_vars

\* a handler changed the state of a character whose clock was running
C9_Witness ==
    /\ event.op \in {"tick", "born_done", "debug", "move", "release", "respawn"}
    /\ After.state # Before.state
    /\ Before.frame_timer > 0
    /\ After.frame_index = 0
    /\ After.frame_timer = 0

\* the origin of the spawn just made: the character whose menu or whose
\* born sequence asked for it
Origin == event.before

\* C10: a spawn that succeeds makes one character at origin + (20, -20), in
\* drop, with vy = -5 and |vx| = 2, wherever the origin is.
C10_SpawnAtOffset ==
    (event.op \in {"menu_spawn", "born_done"} /\ event.new # 0) =>
        /\ Len(pets) = event.count + 1
        /\ pet[event.new].x = Origin.x + Px(20)
        /\ pet[event.new].y = Origin.y - Px(20)
        /\ pet[event.new].state = "drop"
        /\ pet[event.new].vy = -Px(5)
        /\ Abs(pet[event.new].vx) = Px(2)

----------------------------------------------------------------------------
(* The fall to the floor *)

\* the character stands in idle on the floor line, at rest
Landed ==
    /\ pet[1].state = "idle"
    /\ pet[1].y = floor_y(pet[1].screen_rect)
    /\ pet[1].vx = 0
    /\ pet[1].vy = 0

\* the horizontal distance a fall can drift: vx * (1 + 0.98 + 0.98^2 + ...)
Reach(vx) == 50 * Abs(vx)

\* the fall starts strictly between the wall columns and cannot drift onto one
ClearOfWalls ==
    /\ left_bound(pet[1].screen_rect) < pet[1].x - Reach(pet[1].vx)
    /\ pet[1].x + Reach(pet[1].vx) < right_bound(pet[1].screen_rect)

\* C5 (as the code has it): a character that is not dragged and starts in
\* drop above the floor line, strictly between the wall columns and out of
\* their reach, stands after finitely many ticks in idle with y exactly
\* bottom - 178 and velocity (0, 0).
C5_FallLands == ClearOfWalls => <>Landed

\* a fall that started clear of the walls, with a speed of its own, has landed
C5_Witness ==
    /\ Landed
    /\ event.op = "tick"
    /\ event.before.state = "drop"
    /\ event.before.vx # 0
    /\ event.before.y < floor_y(pet[1].screen_rect)

\* C5 (as stated, for a fall from anywhere above the floor line): the tick
\* that ends a fall leaves the character in idle on the floor line at rest.
C5_FallEndStep ==
    (pet[1].state \in AirStates /\ pet'[1].state \notin AirStates) =>
        /\ pet'[1].state = "idle"
        /\ pet'[1].y = floor_y(pet'[1].screen_rect)
        /\ pet'[1].vx = 0
        /\ pet'[1].vy = 0

C5_EveryFallLands == [][C5_FallEndStep]_vars

----------------------------------------------------------------------------
(* Removal, pinning, drag, the idle policy *)

RemoveOps == {"close", "set_max_pets", "remove_all"}

\* lst with its k-th entry taken out
Without(lst, k) == SubSeq(lst, 1, k - 1) \o SubSeq(lst, k + 1, Len(lst))

\* C11: remove_pet takes only the character given off the list: removing a
\* character that is not on it changes nothing, closing one leaves the
\* others on the list in their order, and every removal (close, set_max_pets,
\* remove all) leaves the object of every character that stays untouched.
C11_RemoveStep ==
    /\ \A p \in Ids : ~Visible(p) => remove_pet(pets, p) = pets
    /\ event'.op \in RemoveOps =>
          \A i \in Range(pets') : i \in Range(pets) /\ pet'[i] = pet[i]
    /\ event'.op = "close" =>
          /\ \E k \in 1..Len(pets) :
                pets[k] = event'.p /\ pets' = Without(pets, k)
          /\ pet' = pet

C11_RemoveOnlyThat == [][C11_RemoveStep]_vars

\* a character that was neither the first nor the last of several was closed
C11_Witness ==
    /\ event.op = "close"
    /\ event.count >= 3
    /\ Len(pets) = event.count - 1
    /\ \E i, j \in Range(pets) : i < event.p /\ event.p < j

\* what update_physics_air makes of the character a tick found
AirOutcome == update_physics_air(update_screen_info(Before, desktop, FALSE))

\* C12: a tick of a pinned character in a state other than fly, drop or
\* drag_throw leaves x and y as they were; a tick of a pinned character in
\* one of those three applies update_physics_air as to any other.
C12_Pinned ==
    (Ticked /\ Before.is_fixed) =>
        IF Before.state \notin AirStates
        THEN After.x = Before.x /\ After.y = Before.y
        ELSE ~Before.is_dragging =>
                /\ After.x = AirOutcome.x
                /\ After.y = AirOutcome.y
                /\ After.vx = AirOutcome.vx
                /\ After.vy = AirOutcome.vy
                /\ After.state = AirOutcome.state

\* a pinned character put into ceiling_walk on the floor was ticked and
\* stayed where it was, below the ceiling
C12_Witness ==
    /\ Ticked
    /\ Before.is_fixed
    /\ Before.state = "ceiling_walk"
    /\ Before.y > ceiling_y(Before.screen_rect)
    /\ After.x = Before.x
    /\ After.y = Before.y

Sign(n) == IF n < 0 THEN -1 ELSE IF n > 0 THEN 1 ELSE 0

\* the horizontal distance between the oldest and the newest pointer sample
\* kept, in pixels
Swing(h) == IF Len(h) >= 2 THEN h[Len(h)][1] - h[1][1] ELSE 0

\* the launch state the samples call for: 0.3 * swing against -2 and 2
LaunchState(h) ==
    IF DragVelocity(Swing(h)) < -Px(2) THEN "fly"
    ELSE IF DragVelocity(Swing(h)) > Px(2) THEN "drag_throw"
    ELSE "drop"

\* C13: the launch at drag-end is a function of the pointer samples alone:
\* the samples kept are those since the press (a press empties them, ticks
\* leave them alone), and the release leaves the state and the sign of vx
\* that the samples call for, whatever the character was and wherever it is.
C13_DragDeterminism ==
    /\ (Ticked => After.mouse_history = Before.mouse_history)
    /\ (event.op = "press" => After.mouse_history = <<>>)
    /\ (event.op = "release" =>
          /\ After.state = LaunchState(Before.mouse_history)
          /\ Sign(After.vx) = Sign(Swing(Before.mouse_history)))

\* draws on both sides of every threshold of the idle policy, in thousandths
DrawEdges == {0, 49, 50, 99, 100, 299, 300, 349, 350, 399, 400, 499, 500, 999}

\* the state and the facing the policy of C14 gives for the draw r
PolicyState(q, r, capacity) ==
    IF q.state = "idle"
    THEN (IF q.wander_mode = "full" THEN "walk"
          ELSE IF r < 50 THEN (IF capacity THEN "born" ELSE "idle")
          ELSE IF r < 300 THEN "walk"
          ELSE IF r < 350 THEN "run"
          ELSE IF r < 400 THEN "sit"
          ELSE "idle")
    ELSE IF r < 100 THEN "idle" ELSE q.state

PolicyFacing(q, r) ==
    IF q.state = "idle" /\ q.wander_mode # "full" /\ r >= 400 /\ r < 500
    THEN ~q.look_right
    ELSE q.look_right

\* a tick completed the frame sequence of an unpinned character in idle,
\* walk, run or ie_walk: decide_ai ran
Decided ==
    /\ Ticked
    /\ Before.state \in FloorStates
    /\ ~Before.is_fixed
    /\ Before.frame_index = NumFrames(Before.state) - 1
    /\ Before.frame_timer + TICK_MS >= Dur(Before.state)

\* C14: on sequence-complete in idle, walk, run or ie_walk of an unpinned
\* character, decide_ai maps each draw r to the outcome of the table: idle
\* with wander_mode full -> walk; idle otherwise r < 0.05 -> born if there is
\* capacity, < 0.30 walk, < 0.35 run, < 0.40 sit, < 0.50 flip, else nothing;
\* walk, run, ie_walk r < 0.10 -> idle, else nothing.
C14_IdlePolicy ==
    Decided =>
        \A r \in DrawEdges :
            LET a == ai(version, Before, r, event.count < MAX_PETS)
            IN  /\ a.state = PolicyState(Before, r, event.count < MAX_PETS)
                /\ a.look_right = PolicyFacing(Before, r)

----------------------------------------------------------------------------
(* Monitor lookup *)

\* the tick of update_screen_info looked the centre of the character up and
\* no monitor holds it
LookupFailed ==
    /\ Ticked
    /\ Before.state \notin (WallStates \cup {"ceiling_walk"})
    /\ screenNumber(desktop, ToInt(Before.x + Px(HALF_SPRITE)),
                    ToInt(Before.y + Px(HALF_SPRITE))) = -1

\* C15: a tick whose monitor lookup for the centre of the character finds
\* no monitor leaves screen_rect as it was.
C15_KeepsBounds == LookupFailed => After.screen_rect = Before.screen_rect

----------------------------------------------------------------------------
(* The end of born *)

BornDone == event.op = "born_done"

\* where spawn_pet and spawn_clone put a clone of the character q;
\* src/pet_V3.py falls back to the default start when the x it computed is 0
CloneAt(q, c) ==
    IF version = "V3" /\ q.x + Px(20) = 0
    THEN c.y = Px(c.screen_rect.top - SPRITE)
    ELSE c.x = q.x + Px(20) /\ c.y = q.y - Px(20)

\* C16 (as the code has it): when a born sequence completes the character
\* goes to idle; if the list is below MAX_PETS at that moment exactly one
\* clone is added, launched 20 px to the right of and 20 px above the
\* character, and otherwise the list and every other character are left
\* as they were.
C16_BornStep ==
    event'.op = "born_done" =>
        /\ pet'[event'.p].state = "idle"
        /\ IF Len(pets) < MAX_PETS
           THEN /\ Len(pets') = Len(pets) + 1
                /\ pets' = Append(pets, event'.new)
                /\ ~pet[event'.new].made
                /\ CloneAt(pet[event'.p], pet'[event'.new])
                /\ \A i \in Ids \ {event'.p, event'.new} : pet'[i] = pet[i]
           ELSE /\ pets' = pets
                /\ \A i \in Ids \ {event'.p} : pet'[i] = pet[i]
----------------------------------------------------------------------------
(* The ends of an airborne tick: floor and side walls *)

\* the position an airborne tick moves the character to before its checks
MovedX == Before.x + Before.vx
MovedY == Before.y + Before.vy

\* an airborne tick that moved the character onto or past the floor line
\* and not past the abyss line
LandTick ==
    /\ AirTick
    /\ MovedY >= floor_y(After.screen_rect)
    /\ MovedY <= abyss_threshold(After.screen_rect)

BetweenWalls ==
    /\ left_bound(After.screen_rect) < MovedX
    /\ MovedX < right_bound(After.screen_rect)

\* C17 (as the code has it): an airborne tick in which y reaches or passes
\* the floor line without passing the abyss line ends with y on the floor
\* line and velocity (0, 0); the state is idle when x is strictly between
\* the wall columns and wall_idle when x is on or beyond one.
C17_Landing ==
    LandTick =>
        /\ After.y = floor_y(After.screen_rect)
        /\ After.vx = 0
        /\ After.vy = 0
        /\ After.state = IF BetweenWalls THEN "idle" ELSE "wall_idle"

\* a fall passed the floor line on a wall column
C17_Witness ==
    /\ LandTick
    /\ MovedY > floor_y(After.screen_rect)
    /\ ~BetweenWalls
    /\ After.state = "wall_idle"
    /\ After.y = floor_y(After.screen_rect)

\* C17 as stated: such a tick ends in idle on the floor line at rest,
\* whatever x is.
C17_LandsIdle ==
    LandTick =>
        /\ After.state = "idle"
        /\ After.y = floor_y(After.screen_rect)
        /\ After.vx = 0
        /\ After.vy = 0

\* an airborne tick that moved the character onto or past a side wall and
\* not past the abyss line
WallHitTick ==
    /\ AirTick
    /\ MovedY <= abyss_threshold(After.screen_rect)
    /\ ~BetweenWalls

\* C19: an airborne tick, with no abyss respawn, in which x reaches or
\* passes a side wall (x <= left, or x >= right - 128 - 55) ends in
\* wall_idle with x on that wall, velocity (0, 0) and the facing outward:
\* left at the left wall, right at the right wall.
C19_WallHit ==
    WallHitTick =>
        /\ After.state = "wall_idle"
        /\ After.vx = 0
        /\ After.vy = 0
        /\ IF MovedX <= left_bound(After.screen_rect)
           THEN After.x = left_bound(After.screen_rect) /\ ~After.look_right
           ELSE After.x = right_bound(After.screen_rect) /\ After.look_right

\* a flight to the left passed the left wall column and ended on it
C19_Witness ==
    /\ WallHitTick
    /\ Before.vx < 0
    /\ Before.x > left_bound(After.screen_rect)
    /\ MovedX < left_bound(After.screen_rect)
    /\ After.x = left_bound(After.screen_rect)
    /\ After.state = "wall_idle"
    /\ ~After.look_right

----------------------------------------------------------------------------
(* The edges of the floor and the top of the wall *)

\* a tick of update_physics_floor took a walking character to a side wall
EdgeTick ==
    /\ Ticked
    /\ Before.state \in {"walk", "run", "ie_walk"}
    /\ ~Before.is_dragging /\ ~Before.is_fixed
    /\ After.state \in WallStates

AtLeftEdge == After.x = left_bound(After.screen_rect)
AtRightEdge == After.x = right_bound(After.screen_rect)

\* C18 (as the code has it): a character in walk, run or ie_walk that
\* reaches a screen edge has x on that edge, is in wall_climb if wander_mode
\* is full and in wall_idle otherwise, and faces outward, toward the edge it
\* reached, as it did while walking there: left at the left edge, right at
\* the right edge.
C18_EdgeOutward ==
    EdgeTick =>
        /\ AtLeftEdge \/ AtRightEdge
        /\ After.state = IF Before.wander_mode = "full" THEN "wall_climb"
                         ELSE "wall_idle"
        /\ AtLeftEdge => (~After.look_right /\ ~Before.look_right)
        /\ AtRightEdge => (After.look_right /\ Before.look_right)

\* a walk to the left ended on the left edge in wall_idle
C18_Witness ==
    /\ EdgeTick
    /\ Before.state = "walk"
    /\ Before.x > left_bound(After.screen_rect)
    /\ AtLeftEdge
    /\ After.state = "wall_idle"
    /\ ~After.look_right

\* C18 as stated: the same, with the facing flipped to point inward: right
\* at the left edge, left at the right edge.
C18_EdgeInward ==
    EdgeTick =>
        /\ AtLeftEdge \/ AtRightEdge
        /\ After.state = IF Before.wander_mode = "full" THEN "wall_climb"
                         ELSE "wall_idle"
        /\ AtLeftEdge => After.look_right
        /\ AtRightEdge => ~After.look_right

\* a tick of update_physics_wall took a climbing character to the top
TopTick ==
    /\ Ticked
    /\ Before.state = "wall_climb"
    /\ ~Before.is_dragging /\ ~Before.is_fixed
    /\ Before.y - Px(5) <= ceiling_y(After.screen_rect)

\* ceiling_walk 5 px in from the wall the character climbed
Anchored ==
    /\ After.state = "ceiling_walk"
    /\ IF Before.x < Px(CenterX(After.screen_rect))
       THEN After.x = left_bound(After.screen_rect) + Px(5)
       ELSE After.x = right_bound(After.screen_rect) - Px(5)

\* C20: when wall_climb reaches the top of the monitor y is set to the top
\* and the next state follows wander_mode: wall -> wall_descend; ceiling or
\* full -> ceiling_walk anchored to the nearer edge; none -> one of
\* wall_idle, wall_descend, ceiling_walk and a jump-off (fly or drag_throw),
\* nothing else.
C20_TopOfWall ==
    TopTick =>
        /\ After.y = ceiling_y(After.screen_rect)
        /\ CASE Before.wander_mode = "wall" -> After.state = "wall_descend"
             [] Before.wander_mode \in {"ceiling", "full"} -> Anchored
             [] OTHER ->
                  \/ After.state \in {"wall_idle", "wall_descend", "fly",
                                      "drag_throw"}
                  \/ Anchored

\* the tick at the top of a wall chose the jump-off
Jumped == TopTick /\ After.state \in AirStates

ClimbedLeft == Before.x < Px(CenterX(After.screen_rect))

C21_Launch ==
    Jumped =>
        /\ After.vy = -Px(4)
        /\ After.y = ceiling_y(After.screen_rect)
        /\ IF ClimbedLeft
           THEN /\ After.vx = Px(8)
                /\ After.state = "drag_throw"
                /\ After.look_right
                /\ After.x = left_bound(After.screen_rect) + Px(10)
           ELSE /\ After.vx = -Px(8)
                /\ After.state = "fly"
                /\ ~After.look_right
                /\ After.x = right_bound(After.screen_rect) - Px(10)

\* the tick that follows a jump-off
C21_NextTick ==
    (Jumped /\ event'.op = "tick" /\ event'.p = event.p /\ ~After.is_dragging) =>
        /\ pet'[event.p].state \in AirStates
        /\ pet'[event.p].y < After.y
        /\ IF ClimbedLeft
           THEN pet'[event.p].x > After.x /\ pet'[event.p].vx > 0
           ELSE pet'[event.p].x < After.x /\ pet'[event.p].vx < 0

\* C21: a jump-off from the top of a wall launches the character away from
\* the wall it climbed and upward: from the left wall vx = 8, vy = -4,
\* drag_throw, facing right, x 10 px right of the wall; from the right wall
\* vx = -8, vy = -4, fly, facing left, x 10 px left of the wall; and the
\* next tick leaves it airborne, higher and further from that wall.
C21_JumpOff == []C21_Launch /\ [][C21_NextTick]_vars

\* the tick after a jump-off from the left wall
C21_Witness ==
    /\ event.op = "tick"
    /\ Before.state = "drag_throw"
    /\ Before.vx = Px(8)
    /\ Before.vy = -Px(4)
    /\ Before.x = left_bound(Before.screen_rect) + Px(10)
    /\ Before.y = ceiling_y(Before.screen_rect)
    /\ After.state = "drag_throw"
    /\ After.x > Before.x

----------------------------------------------------------------------------
(* Down the wall, along the ceiling, idle on the wall *)

\* a tick of update_physics_wall took a descending character to the floor line
BottomTick ==
    /\ Ticked
    /\ Before.state = "wall_descend"
    /\ ~Before.is_dragging /\ ~Before.is_fixed
    /\ Before.y + Px(5) >= floor_y(After.screen_rect)

\* C22: when wall_descend reaches the floor line y is set to the floor line
\* and the state becomes wall_climb if wander_mode is wall, idle otherwise.
C22_BottomOfWall ==
    BottomTick =>
        /\ After.y = floor_y(After.screen_rect)
        /\ After.state = IF Before.wander_mode = "wall" THEN "wall_climb"
                         ELSE "idle"

\* a wall patrol turned round at the floor line
C22_Witness ==
    /\ BottomTick
    /\ Before.wander_mode = "wall"
    /\ Before.y < floor_y(After.screen_rect)
    /\ After.y = floor_y(After.screen_rect)
    /\ After.state = "wall_climb"

\* the x a ceiling tick moves the character to before its checks
CrawledX == IF Before.look_right THEN Before.x + Px(3) ELSE Before.x - Px(3)

\* a tick of update_physics_ceiling took the character to a side edge
SideTick ==
    /\ Ticked
    /\ Before.state = "ceiling_walk"
    /\ ~Before.is_dragging /\ ~Before.is_fixed
    /\ \/ CrawledX <= left_bound(After.screen_rect)
       \/ CrawledX >= right_bound(After.screen_rect)

\* C23: when ceiling_walk reaches a side edge x is set to that edge and the
\* outcome follows wander_mode: ceiling -> the facing is reversed and the
\* state stays ceiling_walk; full -> wall_descend; otherwise -> drop with
\* vy = 0.
C23_CeilingEdge ==
    SideTick =>
        /\ After.x = IF CrawledX <= left_bound(After.screen_rect)
                     THEN left_bound(After.screen_rect)
                     ELSE right_bound(After.screen_rect)
        /\ CASE Before.wander_mode = "ceiling" ->
                  /\ After.state = "ceiling_walk"
                  /\ After.look_right = ~Before.look_right
             [] Before.wander_mode = "full" -> After.state = "wall_descend"
             [] OTHER -> After.state = "drop" /\ After.vy = 0

\* a tick took a character off the ceiling away from the side edges
DropOff ==
    /\ Ticked
    /\ Before.state = "ceiling_walk"
    /\ After.state # "ceiling_walk"
    /\ left_bound(After.screen_rect) < CrawledX
    /\ CrawledX < right_bound(After.screen_rect)

C24_Unprompted ==
    DropOff =>
        /\ Before.wander_mode = "none"
        /\ Before.ceiling_dist + 3 > 300
        /\ After.state = "drop"

C24_EntryStep ==
    \A p \in Ids :
        (pet[p].state # "ceiling_walk" /\ pet'[p].state = "ceiling_walk") =>
            pet'[p].ceiling_dist = 0

\* C24: away from the side edges a character with a wander_mode never
\* leaves ceiling_walk by a tick, one without leaves it (for drop) only when
\* ceiling_dist has passed 300, and every step that enters ceiling_walk from
\* another state sets ceiling_dist to 0.
C24_CeilingDrop == []C24_Unprompted /\ [][C24_EntryStep]_vars

\* the first tick on which the distance passes 300 dropped the character
C24_Witness ==
    /\ DropOff
    /\ Before.ceiling_dist = 300
    /\ After.ceiling_dist = 303
    /\ After.state = "drop"
    /\ After.vy = 0

\* a tick of a character idle on a wall
WallIdleTick == Ticked /\ Before.state = "wall_idle"

\* C25: a tick leaves a character in wall_idle there or takes it to
\* wall_climb, or to wall_descend when it is near the top (y <= top + 10),
\* and to no other state; y is unchanged.
C25_WallIdle ==
    WallIdleTick =>
        /\ After.state \in {"wall_idle", "wall_climb", "wall_descend"}
        /\ After.state = "wall_descend" =>
              Before.y <= ceiling_y(After.screen_rect) + Px(10)
        /\ After.y = Before.y

\* a character idle at the top of a wall started down
C25_Witness ==
    /\ WallIdleTick
    /\ ~Before.is_dragging
    /\ Before.y = ceiling_y(After.screen_rect)
    /\ After.state = "wall_descend"
    /\ After.y = Before.y

----------------------------------------------------------------------------
(* Pinned characters and the sitting cycle at the end of a sequence *)

\* a tick completed the frame sequence of the state the character was in
SequenceDone ==
    /\ Ticked
    /\ Before.frame_index = NumFrames(Before.state) - 1
    /\ Before.frame_timer + TICK_MS >= Dur(Before.state)

\* C26: for a pinned character the end of a sequence in idle, walk, run or
\* ie_walk draws nothing: the state is idle, the facing is as it was and no
\* spawn is attempted; and a tick leaves a pinned character in idle in idle.
C26_PinnedPolicy ==
    /\ (SequenceDone /\ Before.is_fixed /\ Before.state \in FloorStates) =>
          /\ After.state = "idle"
          /\ After.look_right = Before.look_right
          /\ event.op = "tick"
          /\ Len(pets) = event.count
    /\ (Ticked /\ Before.is_fixed /\ Before.state = "idle") =>
          After.state = "idle"

\* a pinned character at the end of its walk sequence stopped
C26_Witness ==
    /\ SequenceDone
    /\ Before.is_fixed
    /\ Before.state = "walk"
    /\ After.state = "idle"
    /\ After.x = Before.x

\* C27: at the end of its sequence sit goes to sit_idle; sit_idle to standup
\* or sitloop; sitloop to sit_idle or standup; standup to idle; and to no
\* other state.
C27_SittingCycle ==
    SequenceDone =>
        /\ Before.state = "sit" => After.state = "sit_idle"
        /\ Before.state = "sit_idle" => After.state \in {"standup", "sitloop"}
        /\ Before.state = "sitloop" => After.state \in {"sit_idle", "standup"}
        /\ Before.state = "standup" => After.state = "idle"

\* the end of a sitloop sequence stood the character up
C27_Witness ==
    /\ SequenceDone
    /\ Before.state = "sitloop"
    /\ After.state = "standup"
    /\ After.frame_index = 0

----------------------------------------------------------------------------
(* The drag: samples, launch, suspension of the physics, feedback *)

Released == event.op = "release"

\* the oldest and the newest pointer sample the character kept
Oldest == Before.mouse_history[1]
Newest == Before.mouse_history[Len(Before.mouse_history)]

\* C28: at most the 6 most recent pointer samples are kept; a release with
\* at least two of them leaves the velocity 0.3 * (newest - oldest) in each
\* axis and the state fly facing left if vx < -2, drag_throw facing right if
\* vx > 2, drop otherwise; with fewer than two the velocity is (0, 0) and
\* the state drop.
C28_Launch ==
    /\ \A p \in Ids : Len(pet[p].mouse_history) <= HISTORY_LEN
    /\ (event.op = "move" /\ Len(Before.mouse_history) = HISTORY_LEN) =>
          After.mouse_history = Append(Tail(Before.mouse_history), event.arg)
    /\ (Released /\ Len(Before.mouse_history) >= 2) =>
          /\ After.vx = DragVelocity(Newest[1] - Oldest[1])
          /\ After.vy = DragVelocity(Newest[2] - Oldest[2])
          /\ After.state = LaunchState(Before.mouse_history)
          /\ After.vx < -Px(2) => ~After.look_right
          /\ After.vx > Px(2) => After.look_right
    /\ (Released /\ Len(Before.mouse_history) < 2) =>
          /\ After.vx = 0
          /\ After.vy = 0
          /\ After.state = "drop"

\* C29: a tick of a character that is being dragged changes neither its
\* position nor its velocity nor the offset taken at the press, and each
\* pointer sample puts the character at the pointer minus that offset.
C29_DragSuspends ==
    /\ (Ticked /\ Before.is_dragging) =>
          /\ After.x = Before.x
          /\ After.y = Before.y
          /\ After.vx = Before.vx
          /\ After.vy = Before.vy
          /\ After.drag_offset = Before.drag_offset
          /\ After.is_dragging
    /\ event.op = "press" =>
          After.drag_offset = event.arg /\ After.is_dragging
    /\ event.op = "move" =>
          /\ After.x = Px(event.arg[1] - Before.drag_offset[1])
          /\ After.y = Px(event.arg[2] - Before.drag_offset[2])
          /\ After.drag_offset = Before.drag_offset

\* a falling character was grabbed and the next tick left it where it was
C29_Witness ==
    /\ Ticked
    /\ Before.is_dragging
    /\ Before.state = "drop"
    /\ Before.vy # 0
    /\ After.x = Before.x
    /\ After.y = Before.y
    /\ After.vy = Before.vy

\* the horizontal pointer delta of a sample since the previous one
SampleDx == event.arg[1] - Before.last_drag_x

\* C30: each pointer sample chooses the drag-feedback state from dx with a
\* deadband of 2: dx < -2 -> drag_left_fast, -2 <= dx < 0 -> drag_left_slow,
\* 0 < dx <= 2 -> drag_right_slow, dx > 2 -> drag_right_fast, the facing
\* following the direction; dx = 0 leaves state and facing as they were.
C30_DragFeedback ==
    event.op = "move" =>
        /\ After.last_drag_x = event.arg[1]
        /\ CASE SampleDx < -2 ->
                  After.state = "drag_left_fast" /\ ~After.look_right
             [] SampleDx >= -2 /\ SampleDx < 0 ->
                  After.state = "drag_left_slow" /\ ~After.look_right
             [] SampleDx > 0 /\ SampleDx <= 2 ->
                  After.state = "drag_right_slow" /\ After.look_right
             [] SampleDx > 2 ->
                  After.state = "drag_right_fast" /\ After.look_right
             [] OTHER ->
                  /\ After.state = Before.state
                  /\ After.look_right = Before.look_right

----------------------------------------------------------------------------
(* The animation clock *)

\* the tick found the last frame of the sequence shown for its full duration
LastFrameOver ==
    /\ Before.frame_index = NumFrames(Before.state) - 1
    /\ Before.frame_timer + TICK_MS >= Dur(Before.state)

\* the ticks a frame of the state s is shown for: ceil(Dur(s) / 30)
FrameTicks(s) == (Dur(s) + TICK_MS - 1) \div TICK_MS

\* C31: a tick calls on_action_finished exactly when the frame index wraps
\* from the last frame of the sequence to 0; a tick that keeps the state
\* leaves the frame index where it was or moves it on by one frame (to 0
\* after the last), and moves it exactly at the tick that is the
\* ceil(d / 30)-th one of a frame of d ms.
C31_SequenceComplete ==
    Ticked =>
        /\ event.arg <=> LastFrameOver
        /\ event.arg => After.frame_index = 0
        /\ Before.frame_timer = TICK_MS * (Before.frame_timer \div TICK_MS)
        /\ Before.frame_timer < Dur(Before.state)
        /\ After.state = Before.state =>
             IF Before.frame_timer \div TICK_MS + 1 = FrameTicks(Before.state)
             THEN /\ After.frame_index =
                        (Before.frame_index + 1) % NumFrames(Before.state)
                  /\ After.frame_timer = 0
             ELSE /\ After.frame_index = Before.frame_index
                  /\ After.frame_timer = Before.frame_timer + TICK_MS

\* a tick completed a sequence of several frames and kept the state: the
\* index wrapped from the last frame to the first
C31_Witness ==
    /\ Ticked
    /\ event.arg
    /\ NumFrames(Before.state) > 1
    /\ Before.frame_index = NumFrames(Before.state) - 1
    /\ After.state = Before.state
    /\ After.frame_index = 0

----------------------------------------------------------------------------
(* The airborne tick: integration and the label *)

\* the state update_physics_air labels a velocity with
Label(vx) ==
    IF vx < -Px(2) THEN "fly" ELSE IF vx > Px(2) THEN "drag_throw" ELSE "drop"

\* the facing that goes with the label; drop keeps the facing
LabelFacing(vx, was) ==
    IF vx < -Px(2) THEN FALSE ELSE IF vx > Px(2) THEN TRUE ELSE was

\* an airborne tick that met neither the abyss line, nor the floor line,
\* nor a side wall
FreeTick ==
    /\ AirTick
    /\ MovedY < floor_y(After.screen_rect)
    /\ BetweenWalls

\* C32: an airborne tick moves the character by the velocity it had, adds 2
\* to vy, damps vx, and labels the state from the damped vx alone: fly
\* facing left below -2, drag_throw facing right above 2, else drop.  The
\* label is given before the abyss and floor checks: the facing of a
\* character that is respawned or that lands between the walls is the one
\* of the label.
C32_AirRelabel ==
    /\ FreeTick =>
         /\ After.x = MovedX
         /\ After.y = MovedY
         /\ After.vy = Before.vy + Px(GRAVITY)
         /\ After.vx = Damp(Before.vx)
         /\ After.state = Label(After.vx)
         /\ After.look_right = LabelFacing(After.vx, Before.look_right)
    /\ (AirTick /\ (MovedY > abyss_threshold(After.screen_rect) \/ BetweenWalls)) =>
         After.look_right = LabelFacing(Damp(Before.vx), Before.look_right)

\* a tick damped the velocity of a falling character thrown to the right
\* down to 2 and relabelled it drop
C32_Witness ==
    /\ FreeTick
    /\ Before.state = "drag_throw"
    /\ After.state = "drop"
    /\ After.vx = Px(2)
    /\ Before.vy > 0

----------------------------------------------------------------------------
(* Velocity in the states without physics *)

\* C33: a character in born, sit, sit_idle, sitloop, standup or struggle
\* has velocity (0, 0), however it entered the state.
C33_StillVelocity ==
    \A p \in Ids :
        (pet[p].made /\ pet[p].state \in StillStates) =>
            pet[p].vx = 0 /\ pet[p].vy = 0

----------------------------------------------------------------------------
(* The floor line *)

\* C34: a character that is not dragged and is in idle, walk, run or
\* ie_walk stands on the floor line of its monitor.
C34_OnFloorLine ==
    \A p \in Ids :
        (pet[p].made /\ ~pet[p].is_dragging /\ pet[p].state \in FloorStates) =>
            pet[p].y = floor_y(pet[p].screen_rect)

----------------------------------------------------------------------------
(* Ticks during a drag *)

\* C35: a tick of a character that is being dragged changes neither its
\* state nor its facing and asks for no clone.
C35_DragFreezes ==
    (Ticked /\ Before.is_dragging) =>
        /\ After.state = Before.state
        /\ After.look_right = Before.look_right
        /\ event.op # "born_done"

----------------------------------------------------------------------------
(* Patrols *)

\* C36: a character on full patrol, left to its timer, is in wall_climb, in
\* ceiling_walk and in wall_descend again and again, so that it stays in no
\* state for ever.
C36_Patrol ==
    /\ []<>(pet[1].state = "wall_climb")
    /\ []<>(pet[1].state = "ceiling_walk")
    /\ []<>(pet[1].state = "wall_descend")

\* a character on full patrol came down a wall to the floor after it had
\* crossed the ceiling: one round of the patrol is complete
C36_Witness ==
    /\ Ticked
    /\ Before.wander_mode = "full"
    /\ Before.state = "wall_descend"
    /\ After.state = "idle"
    /\ After.x = left_bound(After.screen_rect)

\* in the variant 333 the patrol needs no luck: decide_ai sends an idle
\* character on full patrol back to walk
C36_Patrol333 == (version = "333") => C36_Patrol

\* a tick of a free character that is on the wall loop
WallLoopTick ==
    /\ Ticked
    /\ Before.wander_mode = "wall"
    /\ Before.state \in {"wall_climb", "wall_descend"}
    /\ ~Before.is_dragging
    /\ ~Before.is_fixed

\* C37: a free character on the wall loop is, after every tick, still on the
\* loop: in wall_climb or wall_descend, at the x it had, between the top of
\* its screen and the floor line.
C37_WallLoop ==
    WallLoopTick =>
        /\ After.state \in {"wall_climb", "wall_descend"}
        /\ After.wander_mode = "wall"
        /\ After.x = Before.x
        /\ After.y >= Px(After.screen_rect.top)
        /\ After.y <= floor_y(After.screen_rect)

\* the variant 333 keeps the loop: update_physics_wall turns round at the top
\* and at the floor
C37_WallLoop333 == (version = "333") => C37_WallLoop

\* a character on the wall loop turned round at the top of the wall
C37_Witness ==
    /\ WallLoopTick
    /\ Before.state = "wall_climb"
    /\ After.state = "wall_descend"
    /\ After.y = Px(After.screen_rect.top)

----------------------------------------------------------------------------
(* The edge of the ceiling *)

\* the last step was the tick in which a character with no patrol walked
\* the ceiling to a side edge and was put in drop there
EdgeDrop ==
    /\ Ticked
    /\ Before.state = "ceiling_walk"
    /\ Before.wander_mode = "none"
    /\ After.state = "drop"
    /\ After.x \in {left_bound(After.screen_rect), right_bound(After.screen_rect)}

\* this step is the next tick of the character of the last step, not dragged
NextTickFree ==
    /\ event'.op \in {"tick", "born_done"}
    /\ event'.p = event.p
    /\ ~pet[event.p].is_dragging

\* C38: the tick after a drop from the edge of the ceiling leaves the
\* character in wall_idle on the wall of that edge, at the top of the screen
\* and at rest: it does not fall to the floor.
C38_EdgeDropClings ==
    [][(EdgeDrop /\ NextTickFree) =>
          /\ pet'[event.p].state = "wall_idle"
          /\ pet'[event.p].x = pet[event.p].x
          /\ pet'[event.p].y = Px(pet[event.p].screen_rect.top)
          /\ pet'[event.p].vx = 0
          /\ pet'[event.p].vy = 0]_vars

\* a character that dropped from the edge of the ceiling at the right wall
\* was taken by the wall on its next tick
C38_Witness ==
    /\ Ticked
    /\ Before.state = "drop"
    /\ Before.y = Px(Before.screen_rect.top)
    /\ Before.x = right_bound(Before.screen_rect)
    /\ Before.ceiling_dist > 0
    /\ After.state = "wall_idle"
    /\ After.y = Before.y

\* a character that carries no horizontal velocity onto the ceiling, as one
\* that climbed a wall to it, is taken by the wall
C38_EdgeDropAtRest ==
    [][(EdgeDrop /\ NextTickFree /\ pet[event.p].vx = 0) =>
          /\ pet'[event.p].state = "wall_idle"
          /\ pet'[event.p].x = pet[event.p].x
          /\ pet'[event.p].y = Px(pet[event.p].screen_rect.top)
          /\ pet'[event.p].vx = 0
          /\ pet'[event.p].vy = 0]_vars

----------------------------------------------------------------------------
(* Sitting *)

\* C39: a character that has entered sit is in idle again at last, and each
\* tick until then leaves it in sit, sit_idle, sitloop or standup (or takes
\* it from standup to idle) at the position it sat down at.
C39_SitEnds ==
    /\ \A p \in Ids :
          (pet[p].made /\ pet[p].state = "sit") ~> (pet[p].state = "idle")
    /\ [][\A p \in Ids :
             (pet[p].made /\ pet[p].state \in SitStates) =>
                /\ pet'[p].state \in SitStates \cup {"idle"}
                /\ pet'[p].state = "idle" => pet[p].state = "standup"
                /\ pet'[p].x = pet[p].x
                /\ pet'[p].y = pet[p].y]_vars

\* a character that sat down, and went through sitloop, stood up to idle
C39_Witness ==
    /\ Ticked
    /\ Before.state = "standup"
    /\ After.state = "idle"
    /\ After.x = Before.x
    /\ After.y = Before.y

----------------------------------------------------------------------------
(* Facing in the air *)

\* C40: in every reachable state a character in fly faces left and a
\* character in drag_throw faces right.
C40_AirFacing ==
    \A p \in Ids :
        pet[p].made =>
            /\ pet[p].state = "fly" => ~pet[p].look_right
            /\ pet[p].state = "drag_throw" => pet[p].look_right

\* a character that faced right left the top of a wall in fly, turned to the
\* left by the jump
C40_Witness ==
    /\ Ticked
    /\ Before.state = "wall_climb"
    /\ Before.look_right
    /\ After.state = "fly"
    /\ ~After.look_right

====
